---- MODULE Spec2Model ----
(***************************************************************************)
(* Model of the Kayak AI concierge service (services/ai-service/app):      *)
(* SimpleNLU.extract, ConciergeAgent (normalize_date, process_message,     *)
(* set_watch, generate_followup, book_flight, book_hotel) and the          *)
(* websocket endpoint of main.py with its follow-up and idle-nudge tasks.  *)
(*                                                                         *)
(* Spec is the service with one client.  Spec2 has two clients, the alert  *)
(* listener and broadcasts that proceed one send at a time.  SpecIntent,   *)
(* SpecRoute, SpecDate and SpecFit call extract, normalize_date and        *)
(* calculate_fit_score on their own, on inputs drawn from bounded sets.    *)
(* SpecBundle, SpecSearch and SpecBook do so for create_bundles,           *)
(* get_recommendations and the booking branch of process_message.          *)
(* SpecDeals is the feed of deals_agent.py: mock_ingestion_loop,           *)
(* consume_raw_feeds and consume_and_notify with two client connections.   *)
(* SpecFirst is the first call of process_message on a new agent and       *)
(* SpecPilot a dialogue with it, turn by turn, as the pilot scripts run it.*)
(*                                                                         *)
(* Text is modelled as a sequence of lower-case words (tokens).  A regular *)
(* expression of the source is matched at word granularity; what a regex   *)
(* or an "in" test sees inside a word (a keyword that is a substring of a  *)
(* longer word, a leading or trailing run of digits) is given by Parts,    *)
(* LeadNum and TrailNum.  str.lower() and str.title() change case only and *)
(* every comparison the source makes on these values is case-insensitive,  *)
(* so case is not modelled.  None, "" and [] are all falsy in the source   *)
(* and the source only tests the truth value of the fields that hold them: *)
(* <<>> stands for an unset text or list field and 0 for an unset number.  *)
(***************************************************************************)
EXTENDS Integers, Sequences, FiniteSets, TLC

----------------------------------------------------------------------------
(* Bounds of the model                                                     *)

\* utterances processed in a run
MaxTurns == 3

\* rows in the Watch table
MaxWatches == 2

\* rows in the bookings table
MaxBookings == 2

----------------------------------------------------------------------------
(* Characters inside words                                                 *)

None == <<>>

\* the numbers that occur as digit runs in the modelled texts
Nums == (0..31) \cup {500, 1500, 2000, 2025, 2026, 2027, 9999}

NumToks == {ToString(n) : n \in Nums}

IsNum(t) == t \in NumToks

IntOf(t) == CHOOSE n \in Nums : ToString(n) = t

OrdSuffix == {"st", "nd", "rd", "th"}

OrdToks == {ToString(n) \o s : n \in 1..31, s \in OrdSuffix}

IsOrd(t) == t \in OrdToks

OrdVal(t) == CHOOSE n \in 1..31 : \E s \in OrdSuffix : ToString(n) \o s = t

Pad2(n) == IF n < 10 THEN "0" \o ToString(n) ELSE ToString(n)

\* f"{y}-{month:02d}-{day:02d}" and strftime("%Y-%m-%d")
FmtDate(y, m, d) == ToString(y) \o "-" \o Pad2(m) \o "-" \o Pad2(d)

\* f"2025-{m_num:02d}"
FmtMonth(y, m) == ToString(y) \o "-" \o Pad2(m)

Years == {n \in Nums : n >= 1000}

\* the words that match \d{4}-\d{2}-\d{2}
CanonTable == {<<FmtDate(y, m, d), y, m, d>> : y \in Years, m \in 1..12, d \in 1..31}

CanonToks == {r[1] : r \in CanonTable}

IsCanon(t) == t \in CanonToks

CanonYMD(t) == LET r == CHOOSE r \in CanonTable : r[1] = t IN <<r[2], r[3], r[4]>>

YMTable == {<<FmtMonth(y, m), y, m>> : y \in Years, m \in 1..12}

YMToks == {r[1] : r \in YMTable}

HasDigits(t) == IsNum(t) \/ IsOrd(t) \/ IsCanon(t) \/ t \in YMToks

IsAlpha(t) == ~HasDigits(t)

\* the first one or two digits of a digit run: what \d{1,2} takes at its start
Lead2(n) == IF n < 100 THEN n ELSE IF n < 1000 THEN n \div 10 ELSE n \div 100

\* the value of the digit run a word starts with, -1 if it starts with none
LeadNum(t) ==
    IF IsNum(t) THEN IntOf(t)
    ELSE IF IsOrd(t) THEN OrdVal(t)
    ELSE IF IsCanon(t) THEN CanonYMD(t)[1]
    ELSE IF t \in YMToks THEN (CHOOSE r \in YMTable : r[1] = t)[2]
    ELSE -1

\* the value of the digit run a word ends with, -1 if it ends with none
TrailNum(t) ==
    IF IsNum(t) THEN IntOf(t)
    ELSE IF IsCanon(t) THEN CanonYMD(t)[3]
    ELSE IF t \in YMToks THEN (CHOOSE r \in YMTable : r[1] = t)[3]
    ELSE -1

\* keywords of the source that are proper substrings of a longer word
Parts(t) ==
    CASE t = "weeks" -> {"week"}
      [] t = "nights" -> {"night"}
      [] t = "flights" -> {"flight", "light"}
      [] t = "bundles" -> {"bundle"}
      [] t = "hotels" -> {"hotel"}
      [] t = "adults" -> {"adult"}
      [] t = "packages" -> {"package"}
      [] t = "january" -> {"jan"}
      [] t = "february" -> {"feb"}
      [] t = "march" -> {"mar"}
      [] t = "april" -> {"apr"}
      [] t = "june" -> {"jun"}
      [] t = "july" -> {"jul"}
      [] t = "august" -> {"aug"}
      [] t = "september" -> {"sep"}
      [] t = "october" -> {"oct"}
      [] t = "november" -> {"nov"}
      [] t = "december" -> {"dec"}
      [] t = "pet-friendly" -> {"pet", "friendly"}
      [] t = "number" -> {"me"}
      [] t = "workspace" -> {"spa"}
      [] OTHER -> {}

\* kw in text, for a keyword of one word
In(kw, text) == \E i \in 1..Len(text) : text[i] = kw \/ kw \in Parts(text[i])

\* kw in text, for a keyword of two words
In2(w1, w2, text) == \E i \in 1..(Len(text) - 1) : text[i] = w1 /\ text[i + 1] = w2

\* number of characters of " ".join(text)
RECURSIVE CharLen(_)
CharLen(text) ==
    IF text = <<>> THEN 0
    ELSE IF Len(text) = 1 THEN Len(text[1])
    ELSE Len(text[1]) + 1 + CharLen(Tail(text))

\* phrase in text, for a phrase of one or more whole words
Contains(text, phrase) ==
    /\ phrase # <<>>
    /\ \E i \in 1..(Len(text) - Len(phrase) + 1) :
          SubSeq(text, i, i + Len(phrase) - 1) = phrase

Min(a, b) == IF a < b THEN a ELSE b

\* the least element of a non-empty set of integers
Least(S) == CHOOSE i \in S : \A j \in S : i <= j

----------------------------------------------------------------------------
(* SimpleNLU                                                               *)

known_cities ==
    << <<"mumbai">>, <<"delhi">>, <<"bangalore">>, <<"goa">>, <<"chennai">>,
       <<"paris">>, <<"tokyo">>, <<"london">>, <<"dubai">>, <<"new", "york">> >>

amenity_keywords ==
    <<"pet", "pool", "wifi", "breakfast", "gym", "spa", "parking", "ocean",
      "mountain", "friendly">>

known_amenities ==
    <<"wifi", "pool", "spa", "pet", "dog", "gym", "breakfast", "parking",
      "ocean", "sea", "mountain">>

\* city.lower() in text
CityIn(city, text) ==
    IF Len(city) = 1 THEN In(city[1], text) ELSE Contains(text, city)

\* a variant that tests the hotel and amenity keywords before the bundle keywords
IntentRefineEarly(text) ==
    IF In("watch", text) \/ In("track", text) \/ In("alert", text) THEN "watch"
    ELSE IF \/ In("book", text) \/ In("select", text) \/ In("choose", text)
            \/ In("chose", text) \/ In2("go", "with", text) \/ In("pick", text)
    THEN "book"
    ELSE IF \/ In("hotel", text)
            \/ \E k \in 1..Len(amenity_keywords) : In(amenity_keywords[k], text)
    THEN "refine"
    ELSE IF In("bundle", text) \/ In("package", text) THEN "bundle"
    ELSE IF In("flight", text) /\ (In("show", text) \/ In("again", text) \/ In("list", text))
    THEN "show_flights"
    ELSE "search"

\* the intent chain of extract, first match wins
Intent(text) ==
    LET has_amenity_keyword ==
            \E k \in 1..Len(amenity_keywords) : In(amenity_keywords[k], text)
    IN  IF In("watch", text) \/ In("track", text) \/ In("alert", text)
        THEN "watch"
        ELSE IF \/ In("book", text) \/ In("select", text) \/ In("choose", text)
                \/ In("chose", text) \/ In2("go", "with", text) \/ In("pick", text)
        THEN "book"
        ELSE IF In("bundle", text) \/ In("package", text) \/ In2("show", "bundle", text)
        THEN "bundle"
        ELSE IF In("flight", text)
                /\ (In("show", text) \/ In("again", text) \/ In("list", text))
        THEN "show_flights"
        ELSE IF In("hotel", text) \/ In2("only", "hotel", text) \/ has_amenity_keyword
        THEN "refine"
        ELSE "search"

\* words that begin with to, for or on: the lookahead (?=\s+(to|for|on)|$)
StopWords == {"to", "for", "on", "tokyo", "tomorrow", "only"}

\* the origin matched when the regex is tried at word i, <<>> when it fails there:
\* (from|departing|leaving)\s+([a-zA-Z\s]+?)(?=\s+(to|for|on)|$)
OriginAt(text, i) ==
    IF text[i] \notin {"from", "departing", "leaving"} \/ i = Len(text) THEN <<>>
    ELSE LET stops == {k \in (i + 2)..Len(text) : text[k] \in StopWords}
             j == IF stops = {} THEN Len(text) + 1 ELSE Least(stops)
         IN  IF \A k \in (i + 1)..(j - 1) : IsAlpha(text[k])
             THEN SubSeq(text, i + 1, j - 1)
             ELSE <<>>

\* re.search: the leftmost word at which the regex matches
OriginMatch(text) ==
    LET hits == {i \in 1..Len(text) : OriginAt(text, i) # <<>>}
    IN  IF hits = {} THEN <<>> ELSE OriginAt(text, Least(hits))

\* 2. the first city of known_cities that is in the text and is not the origin
Destination(text) ==
    LET found_origin == OriginMatch(text)
        ok == {k \in 1..Len(known_cities) :
                  CityIn(known_cities[k], text) /\ known_cities[k] # found_origin}
    IN  IF ok = {} THEN None ELSE known_cities[Least(ok)]

\* 3. (\$|budget\s?|under\s?)(?P<amt>\d+)
Budget(text) ==
    LET hits == {i \in 1..(Len(text) - 1) :
                    text[i] \in {"budget", "under"} /\ LeadNum(text[i + 1]) >= 0}
    IN  IF hits = {} THEN 0 ELSE LeadNum(text[Least(hits) + 1])

\* the first 25 characters of a phrase, in whole words
RECURSIVE Window(_, _)
Window(text, room) ==
    IF text = <<>> \/ Len(text[1]) > room THEN <<>>
    ELSE <<text[1]>> \o Window(Tail(text), room - Len(text[1]) - 1)

\* date.split(" to ")[0].split(" for ")[0].strip()
SplitToFor(text) ==
    LET cuts == {k \in 2..(Len(text) - 1) : text[k] \in {"to", "for"}}
    IN  IF cuts = {} THEN text ELSE SubSeq(text, 1, Least(cuts) - 1)

\* 4. Strategy A: \b(on|from|starting)\b\s+(?P<date>.{4,25}), rejected if a city
DatesA(text) ==
    LET hits == {i \in 1..(Len(text) - 1) :
                    /\ text[i] \in {"on", "from", "starting"}
                    /\ CharLen(SubSeq(text, i + 1, Len(text))) >= 4}
    IN  IF hits = {} THEN None
        ELSE LET i == Least(hits)
                 raw == SplitToFor(Window(SubSeq(text, i + 1, Len(text)), 25))
                 is_city == \E k \in 1..Len(known_cities) : CityIn(known_cities[k], raw)
             IN  IF is_city THEN None ELSE raw

\* the month names of normalize_date, in the order of the dict
MonthKeys ==
    <<"jan", "feb", "mar", "apr", "may", "jun", "jul", "aug", "sep", "oct", "nov",
      "dec", "january", "february", "march", "april", "june", "july", "august",
      "september", "october", "november", "december">>

MonthVals ==
    <<1, 2, 3, 4, 5, 6, 7, 8, 9, 10, 11, 12, 1, 2, 3, 4, 6, 7, 8, 9, 10, 11, 12>>

\* for k, v in months.items(): if k in month_name: month = v; break
MonthOf(word) ==
    LET ks == {k \in 1..Len(MonthKeys) : In(MonthKeys[k], <<word>>)}
    IN  IF ks = {} THEN 0 ELSE MonthVals[Least(ks)]

\* any(m in s for m in months), months being the twelve abbreviations
HasMonth(text) == \E k \in 1..12 : In(MonthKeys[k], text)

\* 4. Strategy B: (in\s)?(jan|...|dec)[a-z]*\.?(\s+\d{1,2}(st|nd|rd|th)?)?(\s+\d{4})?
DatesB(text) ==
    LET hits == {i \in 1..Len(text) : HasMonth(<<text[i]>>)}
    IN  IF hits = {} THEN None
        ELSE LET i == Least(hits)
                 d == IF i < Len(text) THEN text[i + 1] ELSE ""
                 whole == i < Len(text) /\ (IsOrd(d) \/ (IsNum(d) /\ IntOf(d) < 100))
                 part == i < Len(text) /\ ~whole /\ LeadNum(d) >= 0
                 y == IF i + 1 < Len(text) THEN text[i + 2] ELSE ""
                 year == whole /\ i + 1 < Len(text) /\ LeadNum(y) >= 1000
             IN  <<text[i]>>
                 \o (IF whole THEN <<d>>
                     ELSE IF part THEN <<ToString(Lead2(LeadNum(d)))>> ELSE <<>>)
                 \o (IF year THEN <<ToString(LeadNum(y))>> ELSE <<>>)

Dates(text) == IF DatesA(text) # None THEN DatesA(text) ELSE DatesB(text)

TravWords ==
    {"adult", "adults", "guest", "guests", "people", "pax", "traveller", "travellers"}

\* 6. (\d+)\s*(adults?|guests?|people|pax|travellers?)|family of\s*(\d+)
Travelers(text) ==
    LET a == {i \in 1..(Len(text) - 1) :
                 TrailNum(text[i]) >= 0 /\ text[i + 1] \in TravWords}
        b == {i \in 1..(Len(text) - 2) :
                 text[i] = "family" /\ text[i + 1] = "of" /\ LeadNum(text[i + 2]) >= 0}
    IN  IF a \cup b = {} THEN 0
        ELSE LET i == Least(a \cup b)
             IN  IF i \in a THEN TrailNum(text[i]) ELSE LeadNum(text[i + 2])

\* 7. for\s+(\d+)\s*(nights?|days?)
Nights(text) ==
    LET hits == {i \in 1..(Len(text) - 2) :
                    /\ text[i] = "for"
                    /\ IsNum(text[i + 1])
                    /\ text[i + 2] \in {"night", "nights", "day", "days"}}
    IN  IF hits = {} THEN 0 ELSE IntOf(text[Least(hits) + 1])

\* 8. the known amenities found in the text, in the order of known_amenities
RECURSIVE Amenities(_, _)
Amenities(text, k) ==
    IF k > Len(known_amenities) THEN <<>>
    ELSE (IF In(known_amenities[k], text) THEN <<known_amenities[k]>> ELSE <<>>)
         \o Amenities(text, k + 1)

\* (option|number|bundle|#)\s?(?P<idx>\d+), looked for when the intent is book
Index(text) ==
    LET hits == {i \in 1..(Len(text) - 1) :
                    text[i] \in {"option", "number", "bundle"} /\ LeadNum(text[i + 1]) >= 0}
    IN  IF Intent(text) # "book" \/ hits = {} THEN 0
        ELSE LeadNum(text[Least(hits) + 1])

\* SimpleNLU.extract; index 0 stands for an absent index, which the caller
\* treats alike; the airline field is not read by process_message
extract(text) ==
    [intent |-> Intent(text),
     destination |-> Destination(text),
     origin |-> OriginMatch(text),
     budget |-> Budget(text),
     dates |-> Dates(text),
     travelers |-> Travelers(text),
     nights |-> Nights(text),
     amenities |-> Amenities(text, 1),
     index |-> Index(text)]

----------------------------------------------------------------------------
(* Calendar: datetime.strptime, timedelta and strftime                     *)

\* datetime.MAXYEAR
MAXYEAR == 9999

\* datetime.now(), the day the service runs
Today == <<2026, 1, 1>>

IsLeap(y) == (y % 4 = 0 /\ y % 100 # 0) \/ y % 400 = 0

DaysIn(y, m) ==
    IF m = 2 THEN (IF IsLeap(y) THEN 29 ELSE 28)
    ELSE IF m \in {4, 6, 9, 11} THEN 30 ELSE 31

\* a date past MAXYEAR: the OverflowError of date arithmetic
Overflow == <<0, 0, 0>>

NextDay(ymd) ==
    IF ymd[3] < DaysIn(ymd[1], ymd[2]) THEN <<ymd[1], ymd[2], ymd[3] + 1>>
    ELSE IF ymd[2] < 12 THEN <<ymd[1], ymd[2] + 1, 1>>
    ELSE IF ymd[1] < MAXYEAR THEN <<ymd[1] + 1, 1, 1>>
    ELSE Overflow

\* d_obj + timedelta(days=n)
RECURSIVE AddDays(_, _)
AddDays(ymd, n) ==
    IF ymd = Overflow \/ n = 0 THEN ymd ELSE AddDays(NextDay(ymd), n - 1)

\* datetime.strptime(s, "%Y-%m-%d"): the date, or Overflow for a ValueError
strptime(text) ==
    IF Len(text) = 1 /\ IsCanon(text[1])
       /\ CanonYMD(text[1])[3] <= DaysIn(CanonYMD(text[1])[1], CanonYMD(text[1])[2])
    THEN CanonYMD(text[1])
    ELSE Overflow

strftime(ymd) == <<FmtDate(ymd[1], ymd[2], ymd[3])>>

----------------------------------------------------------------------------
(* ConciergeAgent.normalize_date                                           *)

\* re.sub(r'(\d+)(st|nd|rd|th)', r'\1', date_str.lower())
Clean(text) ==
    [i \in 1..Len(text) |-> IF IsOrd(text[i]) THEN ToString(OrdVal(text[i])) ELSE text[i]]

\* re.findall(r'\d+', s)[0]: the first digit run of the text, -1 if there is none
FirstNum(text) ==
    LET hits == {i \in 1..Len(text) : HasDigits(text[i])}
    IN  IF hits = {} THEN -1 ELSE LeadNum(text[Least(hits)])

\* a digit run of four digits at the start of the word after position i
YearAfter(text, i) ==
    IF i < Len(text) /\ LeadNum(text[i + 1]) >= 1000 THEN LeadNum(text[i + 1]) ELSE 0

\* a variant that finds the pattern in no text
DigitDashNever(text) == FALSE

\* a variant that takes any digit for the pattern
DigitDashAny(text) == \E i \in 1..Len(text) : HasDigits(text[i])

\* re.search(r'\d{1,2}[-/]\d{1,2}', date_str)
DigitDash(text) == \E i \in 1..Len(text) : IsCanon(text[i]) \/ text[i] \in YMToks

normalize_date(date_str) ==
    IF date_str = <<>> THEN None
    ELSE IF IsCanon(date_str[1]) THEN date_str
    ELSE
    LET clean == Clean(date_str)
        \* Regex 2: (\d{1,2})(?:st|nd|rd|th)?\s+([a-z]+)\.?\s*(?P<year>\d{4})?
        dmy == {i \in 1..(Len(clean) - 1) :
                   TrailNum(clean[i]) >= 0 /\ IsAlpha(clean[i + 1])}
        i2 == Least(dmy)
        month2 == IF dmy = {} THEN 0 ELSE MonthOf(clean[i2 + 1])
        \* Regex 1: ([a-z]+)\.?\s+(\d{1,2})(?:st|nd|rd|th)?(?:,)?\s*(?P<year>\d{4})?
        mdy == {i \in 1..(Len(clean) - 1) :
                   IsAlpha(clean[i]) /\ LeadNum(clean[i + 1]) >= 0}
        i1 == Least(mdy)
        month1 == IF mdy = {} THEN 0 ELSE MonthOf(clean[i1])
        year1 == IF LeadNum(clean[i1 + 1]) < 100 THEN YearAfter(clean, i1 + 1) ELSE 0
        \* month only: re.search(r'([a-z]+)', clean)
        alpha == {i \in 1..Len(clean) : IsAlpha(clean[i])}
        m_num == IF alpha = {} THEN 0 ELSE MonthOf(clean[Least(alpha)])
        nums == FirstNum(clean)
        future(n) == AddDays(Today, n)
        \* the return after the try block
        last == IF ~HasMonth(date_str) /\ ~DigitDash(date_str) THEN None ELSE date_str
    IN  IF month2 > 0
        THEN <<FmtDate(IF YearAfter(clean, i2 + 1) > 0 THEN YearAfter(clean, i2 + 1) ELSE 2025,
                       month2, TrailNum(clean[i2]) % 100)>>
        ELSE IF month1 > 0
        THEN <<FmtDate(IF year1 > 0 THEN year1 ELSE 2025,
                       month1, Lead2(LeadNum(clean[i1 + 1])))>>
        ELSE IF m_num > 0 THEN <<FmtMonth(2025, m_num)>>
        ELSE IF In("week", clean)
        THEN (IF future(7 * (IF nums >= 0 THEN nums ELSE 1)) = Overflow THEN last
              ELSE strftime(future(7 * (IF nums >= 0 THEN nums ELSE 1))))
        ELSE IF In("day", clean)
        THEN (IF future(IF nums >= 0 THEN nums ELSE 1) = Overflow THEN last
              ELSE strftime(future(IF nums >= 0 THEN nums ELSE 1)))
        ELSE IF In("tomorrow", clean) THEN strftime(future(1))
        ELSE last

----------------------------------------------------------------------------
(* DealsAgent: the catalog and the bundle engine                           *)
(* Prices are whole amounts; a float of the source is the exact rational.  *)
(* An amenities string is modelled as the list of its tags.                *)

\* the rows of the Flight table, in rowid order
Flights ==
    << [id |-> 1, origin |-> <<"delhi">>, destination |-> <<"mumbai">>,
        airline |-> "vistara", stops |-> 0, price |-> 300,
        departure_date |-> <<"2026-01-10">>, seats_left |-> 4, is_promo |-> FALSE],
       [id |-> 2, origin |-> <<"delhi">>, destination |-> <<"mumbai">>,
        airline |-> "indigo", stops |-> 1, price |-> 200,
        departure_date |-> <<"2026-01-15">>, seats_left |-> 50, is_promo |-> TRUE],
       [id |-> 3, origin |-> <<"mumbai">>, destination |-> <<"goa">>,
        airline |-> "spicejet", stops |-> 0, price |-> 150,
        departure_date |-> <<"2025-12-25">>, seats_left |-> 20, is_promo |-> FALSE] >>

\* the rows of the Listing table, in rowid order
Listings ==
    << [id |-> 1, neighbourhood |-> <<"mumbai">>, price |-> 120,
        amenities |-> <<"wifi", "pool">>, is_deal |-> FALSE, avg_30d_price |-> 130],
       [id |-> 2, neighbourhood |-> <<"mumbai">>, price |-> 80,
        amenities |-> <<"wifi">>, is_deal |-> TRUE, avg_30d_price |-> 100],
       [id |-> 3, neighbourhood |-> <<"goa">>, price |-> 90,
        amenities |-> <<"pool", "pet">>, is_deal |-> FALSE, avg_30d_price |-> 95] >>

\* the rows of a table that satisfy a condition, in table order
Filter(rows, Keep(_)) ==
    LET K == {i \in 1..Len(rows) : Keep(rows[i])}
    IN  [j \in 1..Cardinality(K) |->
            rows[CHOOSE i \in K : Cardinality({k \in K : k <= i}) = j]]

\* a row put into a list sorted by price, after the rows of the same price
RECURSIVE Insert(_, _)
Insert(row, sorted) ==
    IF sorted = <<>> THEN <<row>>
    ELSE IF row.price < sorted[1].price THEN <<row>> \o sorted
    ELSE <<sorted[1]>> \o Insert(row, Tail(sorted))

\* order_by(price) and the stable list.sort(key=price)
RECURSIVE SortByPrice(_)
SortByPrice(rows) ==
    IF rows = <<>> THEN <<>>
    ELSE Insert(rows[Len(rows)], SortByPrice(SubSeq(rows, 1, Len(rows) - 1)))

\* .limit(n) and rows[:n]
Take(rows, n) == SubSeq(rows, 1, Min(n, Len(rows)))

\* a run of digits, of the given width, is a substring of another
DigitsIn(q, qw, n, nw) ==
    \E k \in 0..(nw - qw) : (n \div (10 ^ k)) % (10 ^ qw) = q

\* column.contains(date) for a departure date YYYY-MM-DD
DateContains(dep, date) ==
    /\ Len(date) = 1
    /\ LET ymd == CanonYMD(dep[1])
           q == date[1]
       IN  \/ q = dep[1]
           \/ q = FmtMonth(ymd[1], ymd[2])
           \/ /\ IsNum(q)
              /\ \/ DigitsIn(IntOf(q), Len(q), ymd[1], 4)
                 \/ DigitsIn(IntOf(q), Len(q), ymd[2], 2)
                 \/ DigitsIn(IntOf(q), Len(q), ymd[3], 2)

\* date[:7] of a date of at least seven characters
Prefix7(date) ==
    IF IsCanon(date[1]) THEN <<FmtMonth(CanonYMD(date[1])[1], CanonYMD(date[1])[2])>>
    ELSE IF Len(date[1]) = 7 THEN <<date[1]>>
    ELSE <<"~" \o date[1]>>

FlightRec(f) ==
    [type |-> "Flight", id |-> f.id, origin |-> f.origin, destination |-> f.destination,
     price |-> f.price, airline |-> f.airline, stops |-> f.stops,
     departure_time |-> f.departure_date, seats_left |-> f.seats_left,
     is_promo |-> f.is_promo]

HotelRec(l) ==
    [type |-> "Hotel", id |-> l.id, destination |-> l.neighbourhood, price |-> l.price,
     airline |-> "N/A", amenities |-> l.amenities, is_deal |-> l.is_deal,
     avg_30d |-> l.avg_30d_price]

\* 1. Search Flights, with the month and the undated fallback
SearchFlights(destination, budget, category, date) ==
    LET limit == IF category = "Flight" THEN 20 ELSE 10
        dest(f) == destination = <<>> \/ Contains(f.destination, destination)
        cheap(f) == budget = 0 \/ f.price <= budget
        exact(f) == dest(f) /\ cheap(f) /\ DateContains(f.departure_date, date)
        month(f) == dest(f) /\ DateContains(f.departure_date, Prefix7(date))
        any(f) == dest(f) /\ cheap(f)
        first == Take(Filter(Flights, exact), limit)
        second == IF first = <<>> /\ CharLen(date) >= 7
                  THEN Take(Filter(Flights, month), limit) ELSE first
    IN  IF date = <<>> THEN Take(SortByPrice(Filter(Flights, any)), limit)
        ELSE IF second = <<>> THEN Take(SortByPrice(Filter(Flights, any)), limit)
        ELSE second

\* 2. Search Hotels (Listings)
SearchHotels(destination, budget, category) ==
    LET limit == IF category = "Hotel" THEN 10 ELSE 5
        keep(l) == /\ destination = <<>> \/ Contains(l.neighbourhood, destination)
                   /\ budget = 0 \/ l.price <= budget
    IN  Take(SortByPrice(Filter(Listings, keep)), limit)

Map(rows, F(_)) == [i \in 1..Len(rows) |-> F(rows[i])]

\* category "" stands for None (both)
get_recommendations(destination, budget, category, date) ==
    (IF category \in {"", "Flight"}
     THEN Map(SearchFlights(destination, budget, category, date), FlightRec) ELSE <<>>)
    \o (IF category \in {"", "Hotel"}
        THEN Map(SearchHotels(destination, budget, category), HotelRec) ELSE <<>>)

\* twice statistics.median of the prices of a non-empty list
Median2(rows) ==
    LET s == SortByPrice(rows)
        n == Len(s)
    IN  IF n % 2 = 1 THEN 2 * s[(n + 1) \div 2].price
        ELSE s[n \div 2].price + s[n \div 2 + 1].price

\* int(x) of the quotient a / b, b > 0: truncation towards zero
TruncDiv(a, b) == IF a >= 0 THEN a \div b ELSE -((-a) \div b)

\* a variant that always takes its second argument
MaxSecond(a, b) == b

Max(a, b) == IF a > b THEN a ELSE b

\* a variant that takes a tag for the amenity only when the two are equal
HasTagExactly(tags, a) == \E i \in 1..Len(tags) : tags[i] = a

\* a in hotel_amenities: the amenity is a tag or a part of a tag
HasTag(tags, a) == \E i \in 1..Len(tags) : tags[i] = a \/ a \in Parts(tags[i])

\* f_med2 and h_med2 are twice the medians
calculate_fit_score(flight, hotel, f_med2, h_med2, budget, amenities) ==
    LET \* savings * 50, as the fraction num / den
        fnum == IF f_med2 > 0 THEN f_med2 - 2 * flight.price ELSE 0
        fden == IF f_med2 > 0 THEN f_med2 ELSE 1
        hnum == IF h_med2 > 0 THEN h_med2 - 2 * hotel.price ELSE 0
        hden == IF h_med2 > 0 THEN h_med2 ELSE 1
        price_pts == Min(30, TruncDiv(50 * (fnum * hden + hnum * fden), fden * hden))
        tag_pts == (IF HasTag(hotel.amenities, "wifi") THEN 5 ELSE 0)
                   + (IF HasTag(hotel.amenities, "pool") THEN 5 ELSE 0)
                   + (IF HasTag(hotel.amenities, "breakfast") THEN 5 ELSE 0)
                   + (IF HasTag(hotel.amenities, "spa") THEN 5 ELSE 0)
        match_count == Cardinality({i \in 1..Len(amenities) :
                                       HasTag(hotel.amenities, amenities[i])})
        req_pts == IF amenities = <<>> THEN 0
                   ELSE 15 * match_count
                        + (IF match_count = Len(amenities) THEN 10 ELSE 0)
        budget_pts == IF budget # 0 /\ flight.price + hotel.price <= budget
                      THEN 10 ELSE 0
    IN  Min(100, Max(10, 50 + price_pts + tag_pts + req_pts + budget_pts))

\* a variant that leaves the list in the order of the cross product
InsertFirst(b, sorted) == <<b>> \o sorted

\* a bundle put into a list sorted by fit score descending, after its equals
RECURSIVE InsertByScore(_, _)
InsertByScore(b, sorted) ==
    IF sorted = <<>> THEN <<b>>
    ELSE IF b.fit_score > sorted[1].fit_score THEN <<b>> \o sorted
    ELSE <<sorted[1]>> \o InsertByScore(b, Tail(sorted))

RECURSIVE SortByScore(_)
SortByScore(bs) ==
    IF bs = <<>> THEN <<>>
    ELSE InsertByScore(bs[Len(bs)], SortByScore(SubSeq(bs, 1, Len(bs) - 1)))

\* a variant without the budget test
RECURSIVE PairsAnyPrice(_, _, _, _, _)
PairsAnyPrice(fs, hs, allh, budget, amenities) ==
    IF fs = <<>> THEN <<>>
    ELSE IF hs = <<>> THEN PairsAnyPrice(Tail(fs), allh, allh, budget, amenities)
    ELSE (IF \E i \in 1..Len(amenities) : ~HasTag(hs[1].amenities, amenities[i])
          THEN <<>> ELSE << <<fs[1], hs[1]>> >>)
         \o PairsAnyPrice(fs, Tail(hs), allh, budget, amenities)

\* the pairs of the cross product, flight-major, that pass the filters
RECURSIVE Pairs(_, _, _, _, _)
Pairs(fs, hs, allh, budget, amenities) ==
    IF fs = <<>> THEN <<>>
    ELSE IF hs = <<>> THEN Pairs(Tail(fs), allh, allh, budget, amenities)
    ELSE LET f == fs[1]
             h == hs[1]
             over == budget # 0 /\ f.price + h.price > budget
             missing == \E i \in 1..Len(amenities) : ~HasTag(h.amenities, amenities[i])
         IN  (IF over \/ missing THEN <<>> ELSE << <<f, h>> >>)
             \o Pairs(fs, Tail(hs), allh, budget, amenities)

\* create_bundles from 2. Stats on, for the flights and hotels it fetched; the
\* explanation texts (why_this, what_to_watch) are display only
TopBundles(flights, hotels, budget, amenities) ==
    LET f_med2 == Median2(flights)
        h_med2 == Median2(hotels)
        candidates_f == Take(SortByPrice(flights), 5)
        candidates_h == Take(SortByPrice(hotels), 5)
        bundle(p) ==
            [id |-> <<p[1].id, p[2].id>>, flight |-> p[1], hotel |-> p[2],
             total_price |-> p[1].price + p[2].price,
             fit_score |-> calculate_fit_score(p[1], p[2], f_med2, h_med2, budget, amenities),
             policies |-> [cancellation |-> "Non-refundable"]]
    IN  IF flights = <<>> \/ hotels = <<>> THEN <<>>
        ELSE Take(SortByScore(Map(Pairs(candidates_f, candidates_h, candidates_h,
                                        budget, amenities), bundle)), 3)

\* 1. Fetch Candidates, then the bundles of what was fetched
create_bundles(destination, date, budget, amenities) ==
    TopBundles(get_recommendations(destination, 0, "Flight", date),
               get_recommendations(destination, 0, "Hotel", <<>>), budget, amenities)

----------------------------------------------------------------------------
(* ConciergeAgent.process_message                                          *)

\* the frames a client sends that are utterances
Utterances ==
    { <<"plan", "a", "trip">>,
      <<"delhi">>,
      <<"2">>,
      <<"find", "me", "a", "hotel", "in", "goa">>,
      <<"find", "me", "a", "hotel", "in", "goa", "on", "january", "10th">>,
      <<"mumbai", "on", "january", "10th">>,
      <<"2026-01-10">>,
      <<"9999-12-30">>,
      <<"3", "nights">>,
      <<"30", "nights">>,
      <<"track", "mumbai", "under", "1500">>,
      <<"alert", "me">>,
      <<"show", "flights", "to", "mumbai">>,
      <<"show", "bundles">>,
      <<"book", "option", "2">>,
      <<"book", "it">> }

\* self.nlu.extract(message), computed once for each utterance
Extracted == [m \in Utterances |-> extract(m)]

\* the texts normalize_date is called with: an utterance, its extracted dates
\* or an unset field
DateTexts == Utterances \cup {Extracted[m].dates : m \in Utterances} \cup {None}

\* self.normalize_date(text), computed once for each text
Normalized == [t \in DateTexts |-> normalize_date(t)]

\* the values the context fields passed to the catalog can take: a field
\* holds an extracted value or a whole utterance, a search date may be
\* normalized
DestTexts == Utterances \cup {Extracted[m].destination : m \in Utterances}

Budgets == {Extracted[m].budget : m \in Utterances} \cup {0}

AmenityLists == {Extracted[m].amenities : m \in Utterances} \cup {None}

SearchDates == DateTexts \cup {Normalized[t] : t \in DateTexts}

\* deals_agent.get_recommendations(...), computed once for each argument list
Recommended ==
    [d \in DestTexts, b \in Budgets, c \in {"", "Flight", "Hotel"}, t \in SearchDates |->
        get_recommendations(d, b, c, t)]

\* deals_agent.create_bundles(...), computed once for each argument list
Bundled ==
    [d \in DestTexts, t \in DateTexts, b \in Budgets, a \in AmenityLists |->
        create_bundles(d, t, b, a)]

NoSlot == "none"

Slots == {"destination", "dates", "check_in", "check_out", "origin", "travelers"}

\* ConciergeAgent.__init__: current_context
EmptyContext ==
    [destination |-> None, origin |-> None, budget |-> 0, dates |-> None,
     check_in |-> None, check_out |-> None, travelers |-> 0, nights |-> 0,
     amenities |-> None]

\* a or b
Or(a, b) == IF a # <<>> THEN a ELSE b

\* a context field is unset: not self.current_context.get(slot)
Unset(ctx, slot) ==
    IF slot = "travelers" THEN ctx.travelers = 0 ELSE ctx[slot] = <<>>

\* a variant that counts the check-in day as the first night
FillCheckOutInclusive(ctx, ex, message) ==
    IF In("night", message)
    THEN IF FirstNum(message) < 0 THEN ctx
         ELSE LET nights == FirstNum(message)
                  d_out == IF ctx.check_in = <<>> \/ nights = 0 THEN Overflow
                           ELSE AddDays(strptime(ctx.check_in), nights - 1)
              IN  [ctx EXCEPT !.check_out = IF d_out = Overflow THEN @ ELSE strftime(d_out),
                              !.nights = nights]
    ELSE [ctx EXCEPT !.check_out = Normalized[Or(ex.dates, message)]]

\* the answer to a check_out prompt: a date or "3 nights"
FillCheckOut(ctx, ex, message) ==
    IF In("night", message)
    THEN IF FirstNum(message) < 0 THEN ctx
         ELSE LET nights == FirstNum(message)
                  d_out == IF ctx.check_in = <<>> THEN Overflow
                           ELSE AddDays(strptime(ctx.check_in), nights)
              IN  [ctx EXCEPT !.check_out = IF d_out = Overflow THEN @ ELSE strftime(d_out),
                              !.nights = nights]
    ELSE [ctx EXCEPT !.check_out = Normalized[Or(ex.dates, message)]]

\* a variant that lets the city the NLU took for a destination replace the
\* destination of the context
FillOriginClobber(ctx, ex, message) ==
    LET candidate == Or(ex.origin, Or(ex.destination, message))
    IN  [ctx EXCEPT !.origin = candidate,
                    !.destination = IF ex.destination # <<>> THEN ex.destination ELSE @]

\* the answer to an origin prompt: the city the NLU found, as origin or as
\* destination, else the whole text; a repeat of the destination is dropped
FillOrigin(ctx, ex, message) ==
    LET candidate == Or(ex.origin, Or(ex.destination, message))
    IN  IF ctx.destination # <<>> /\ candidate = ctx.destination
        THEN ctx ELSE [ctx EXCEPT !.origin = candidate]

\* the context after the answer to the awaited slot is written
Answer(ctx, awaiting, ex, message) ==
    CASE awaiting = "destination" ->
            [ctx EXCEPT !.destination = Or(ex.destination, message)]
      [] awaiting = "dates" ->
            [ctx EXCEPT !.dates = Or(ex.dates, message)]
      [] awaiting = "check_in" ->
            [ctx EXCEPT !.check_in = Normalized[Or(ex.dates, message)]]
      [] awaiting = "check_out" -> FillCheckOut(ctx, ex, message)
      [] awaiting = "origin" -> FillOrigin(ctx, ex, message)
      [] awaiting = "travelers" ->
            IF ex.travelers # 0 THEN [ctx EXCEPT !.travelers = ex.travelers]
            ELSE IF FirstNum(message) >= 0
            THEN [ctx EXCEPT !.travelers = FirstNum(message)]
            ELSE IF In("me", message) THEN [ctx EXCEPT !.travelers = 1]
            ELSE ctx

\* a variant that forgets to reset awaiting_slot
FillSlotKeeps(ctx, awaiting, ex, message) ==
    IF awaiting = NoSlot \/ ~Unset(ctx, awaiting)
    THEN [ctx |-> ctx, awaiting |-> awaiting]
    ELSE [ctx |-> Answer(ctx, awaiting, ex, message), awaiting |-> awaiting]

\* 0. Contextual Slot Filling: the context and awaiting_slot after the answer
\* to the awaited slot is consumed
FillSlot(ctx, awaiting, ex, message) ==
    IF awaiting = NoSlot \/ ~Unset(ctx, awaiting)
    THEN [ctx |-> ctx, awaiting |-> awaiting]
    ELSE [ctx |-> Answer(ctx, awaiting, ex, message), awaiting |-> NoSlot]

\* re.search(r'\d{1,2}', date_str)
AnyDigit(text) == \E i \in 1..Len(text) : HasDigits(text[i])

\* a variant that writes no field that is already set
MergeSlotsKeep(ctx, ex) ==
    [ctx EXCEPT
        !.destination = IF ex.destination # <<>> /\ @ = <<>> THEN ex.destination ELSE @,
        !.origin = IF ex.origin # <<>> /\ @ = <<>> THEN ex.origin ELSE @,
        !.budget = IF ex.budget # 0 /\ @ = 0 THEN ex.budget ELSE @,
        !.dates = IF ex.dates # <<>> /\ (HasMonth(ex.dates) \/ AnyDigit(ex.dates)) /\ @ = <<>>
                  THEN ex.dates ELSE @,
        !.travelers = IF ex.travelers # 0 /\ @ = 0 THEN ex.travelers ELSE @,
        !.nights = IF ex.nights # 0 /\ @ = 0 THEN ex.nights ELSE @,
        !.amenities = IF ex.amenities # <<>> /\ @ = <<>> THEN ex.amenities ELSE @]

\* a variant that takes the destination of the utterance whenever it names one
MergeSlotsLatest(ctx, ex) ==
    [ctx EXCEPT
        !.destination = IF ex.destination # <<>> THEN ex.destination ELSE @,
        !.origin = IF ex.origin # <<>> THEN ex.origin ELSE @,
        !.budget = IF ex.budget # 0 THEN ex.budget ELSE @,
        !.dates = IF ex.dates # <<>> /\ (HasMonth(ex.dates) \/ AnyDigit(ex.dates))
                  THEN ex.dates ELSE @,
        !.travelers = IF ex.travelers # 0 THEN ex.travelers ELSE @,
        !.nights = IF ex.nights # 0 THEN ex.nights ELSE @,
        !.amenities = IF ex.amenities # <<>> THEN ex.amenities ELSE @]

\* the merge of the extracted slots into the context
MergeSlots(ctx, ex) ==
    [ctx EXCEPT
        !.destination = IF ex.destination # <<>> /\ @ = <<>> THEN ex.destination ELSE @,
        !.origin = IF ex.origin # <<>> THEN ex.origin ELSE @,
        !.budget = IF ex.budget # 0 THEN ex.budget ELSE @,
        !.dates = IF ex.dates # <<>> /\ (HasMonth(ex.dates) \/ AnyDigit(ex.dates))
                  THEN ex.dates ELSE @,
        !.travelers = IF ex.travelers # 0 THEN ex.travelers ELSE @,
        !.nights = IF ex.nights # 0 THEN ex.nights ELSE @,
        !.amenities = IF ex.amenities # <<>> THEN ex.amenities ELSE @]

is_hotel_flow(ctx, message) ==
    In("hotel", message) \/ ctx.check_in # <<>> \/ ctx.amenities # <<>>

\* a variant that asks for the origin before the dates
GateOriginFirst(ctx, hotel) ==
    IF ctx.destination = <<>> THEN "destination"
    ELSE IF ~hotel /\ ctx.origin = <<>> THEN "origin"
    ELSE IF ctx.dates = <<>> /\ ctx.check_in = <<>>
    THEN (IF hotel THEN "check_in" ELSE "dates")
    ELSE IF hotel /\ ctx.check_in # <<>> /\ ctx.check_out = <<>> THEN "check_out"
    ELSE IF ctx.travelers = 0 THEN "travelers"
    ELSE NoSlot

\* the slot the slot-filling gate asks for, NoSlot when it asks for none
Gate(ctx, hotel) ==
    IF ctx.destination = <<>> THEN "destination"
    ELSE IF ctx.dates = <<>> /\ ctx.check_in = <<>>
    THEN (IF hotel THEN "check_in" ELSE "dates")
    ELSE IF hotel /\ ctx.check_in # <<>> /\ ctx.check_out = <<>> THEN "check_out"
    ELSE IF ~hotel /\ ctx.origin = <<>> THEN "origin"
    ELSE IF ctx.travelers = 0 THEN "travelers"
    ELSE NoSlot

\* a reply: json tells a {text, actions} object from plain text, wait is
\* "[WAIT]" in response
Reply(kind, json, wait) == [kind |-> kind, json |-> json, wait |-> wait]

\* the outcomes of book_flight and book_hotel: the booking row is committed,
\* an exception is raised, or no user id is resolved and nothing is written
Outcomes == {"ok", "raise", "nouser"}

IsBundle(item) == "flight" \in DOMAIN item /\ "hotel" \in DOMAIN item

\* a variant that takes the index to count from zero
SelectItemZeroBased(recs, ex) ==
    IF ex.index # 0 /\ ex.index < Len(recs) THEN recs[ex.index + 1] ELSE recs[1]

\* a variant that takes the last item for an index beyond the list
SelectItemClamped(recs, ex) ==
    IF ex.index # 0 THEN recs[Min(ex.index, Len(recs))] ELSE recs[1]

\* B. 1. Select by Index: the first item unless the index names another
SelectItem(recs, ex) ==
    LET idx == ex.index - 1
    IN  IF ex.index # 0 /\ 0 <= idx /\ idx < Len(recs) THEN recs[idx + 1] ELSE recs[1]

\* a variant without the try around the booking calls
EscapesUncaught(failed) == failed

\* whether the exception of a failed booking call leaves process_message:
\* each booking call is inside a try whose except returns the failure text
Escapes(failed) == FALSE

\* B. Dispatch based on Type: the item booked, the rows committed, the reply,
\* whether a booking call failed with an exception and whether an exception
\* leaves process_message
Book(recs, ex, out) ==
    LET selected_item == SelectItem(recs, ex)
        row(type, item) == [item_type |-> type, item_id |-> item.id]
    IN  IF IsBundle(selected_item)
        THEN [selected |-> selected_item,
              rows |-> (IF out[1] = "ok" THEN <<row("FLIGHT", selected_item.flight)>>
                        ELSE <<>>)
                       \o (IF out[1] # "raise" /\ out[2] = "ok"
                           THEN <<row("HOTEL", selected_item.hotel)>> ELSE <<>>),
              reply |-> IF out[1] = "raise" \/ out[2] = "raise"
                        THEN Reply("bundle_booking_failed", FALSE, FALSE)
                        ELSE Reply("booking_confirmed", FALSE, FALSE),
              failed |-> (out[1] = "raise" \/ out[2] = "raise"),
              raised |-> Escapes(out[1] = "raise" \/ out[2] = "raise")]
        ELSE IF selected_item.type = "Flight" \/ selected_item.airline # ""
        THEN [selected |-> selected_item,
              rows |-> IF out[1] = "ok" THEN <<row("FLIGHT", selected_item)>> ELSE <<>>,
              reply |-> IF out[1] = "raise"
                        THEN Reply("flight_booking_failed", FALSE, FALSE)
                        ELSE Reply("flight_confirmed", FALSE, FALSE),
              failed |-> (out[1] = "raise"), raised |-> Escapes(out[1] = "raise")]
        ELSE [selected |-> selected_item,
              rows |-> IF out[2] = "ok" THEN <<row("HOTEL", selected_item)>> ELSE <<>>,
              reply |-> IF out[2] = "raise"
                        THEN Reply("hotel_booking_failed", FALSE, FALSE)
                        ELSE Reply("hotel_confirmed", FALSE, FALSE),
              failed |-> (out[2] = "raise"), raised |-> Escapes(out[2] = "raise")]

\* a variant without the default target price
WatchTargetNoDefault(ctx) == ctx.budget

\* A. Watch: the target price of the watch, 2000 when no budget is known
WatchTarget(ctx) == IF ctx.budget = 0 THEN 2000 ELSE ctx.budget

\* set_watch: the row of the Watch table it commits
set_watch(destination, target_price) ==
    [user_id |-> "user_123", destination |-> destination,
     target_price |-> target_price, is_active |-> TRUE]

\* no item selected, no row written, no watch added
NoEffect ==
    [selected |-> <<>>, rows |-> <<>>, watch |-> <<>>, failed |-> FALSE, raised |-> FALSE]

\* the intent dispatch after the gate (lines 475-724): the reply, the new
\* last_recommendations and the rows written; out is the outcome of the
\* booking calls of this turn
Dispatch(ctx, recs, ex, message, out) ==
    LET intent == ex.intent
        dest == ctx.destination
        plain(kind, newrecs) ==
            [reply |-> Reply(kind, FALSE, FALSE), recs |-> newrecs] @@ NoEffect
        is_bundle == In("bundle", message)
                     \/ (ctx.amenities # <<>> /\ ~In("flight", message))
        target_type == IF In("hotel", message) \/ ctx.amenities # <<>>
                       THEN "Hotel" ELSE "Flight"
        Route(bundles, flights, new_recs, b) ==
            IF intent = "bundle"
            THEN IF dest = <<>> THEN plain("bundles_where", recs)
                 ELSE IF bundles # <<>> THEN plain("bundles", bundles)
                 ELSE plain("no_bundles", recs)
            ELSE IF intent = "show_flights"
            THEN IF dest = <<>> THEN plain("flights_where", recs)
                 ELSE IF flights = <<>> THEN plain("no_flights", <<>>)
                 ELSE plain("flights", flights)
            ELSE IF intent = "refine"
            THEN IF dest = <<>> THEN plain("refine_where", recs)
                 ELSE IF is_bundle /\ bundles # <<>> THEN plain("refined_bundles", bundles)
                 ELSE IF new_recs = <<>> THEN plain("refine_none", new_recs)
                 ELSE plain("refined", new_recs)
            ELSE IF intent = "watch"
            THEN IF dest = <<>> THEN plain("watch_which", recs)
                 ELSE [reply |-> Reply("watch_set", FALSE, FALSE), recs |-> recs,
                       selected |-> <<>>, rows |-> <<>>, failed |-> FALSE,
                       raised |-> FALSE,
                       watch |-> <<set_watch(dest, WatchTarget(ctx))>>]
            ELSE IF intent = "book" /\ recs # <<>>
            THEN [reply |-> b.reply, recs |-> recs, selected |-> <<b.selected>>,
                  rows |-> b.rows, watch |-> <<>>, failed |-> b.failed,
                  raised |-> b.raised]
            ELSE IF ctx.dates = <<>>
            THEN (IF dest # <<>> THEN plain("when", recs) ELSE plain("where", recs))
            ELSE IF ~In("wait", message)
            THEN [reply |-> Reply("searching", FALSE, TRUE), recs |-> recs] @@ NoEffect
            ELSE plain("please_wait", recs)
    IN  Route(\* bundles = deals_agent.create_bundles(...)
              Bundled[dest, ctx.dates, ctx.budget, ctx.amenities],
              \* flights = deals_agent.get_recommendations(..., category="Flight")
              Recommended[dest, ctx.budget, "Flight", ctx.dates],
              \* new_recs = deals_agent.get_recommendations(..., date=search_date or dates)
              Recommended[dest, ctx.budget, target_type,
                          Or(Normalized[ctx.dates], ctx.dates)],
              Book(recs, ex, out))

\* the return value of a turn that passed the gate
Dispatched(filled, merged, final, d) ==
    [ctx |-> final, awaiting |-> filled.awaiting, recs |-> d.recs,
     reply |-> d.reply, filled |-> filled, merged |-> merged,
     dispatched |-> TRUE, selected |-> d.selected, rows |-> d.rows,
     watch |-> d.watch, failed |-> d.failed, raised |-> d.raised]

\* 2. Slot Filling Gate, the Skip of the origin and the dispatch
Gating(recs, message, out, extracted, filled, merged) ==
    LET hotel == is_hotel_flow(merged, message)
        ask == IF extracted.intent \in {"search", "refine"} /\ recs = <<>>
               THEN Gate(merged, hotel) ELSE NoSlot
        final == IF extracted.origin = <<"skip">>
                 THEN [merged EXCEPT !.origin = <<"unknown">>] ELSE merged
    IN  IF ask # NoSlot
        THEN [ctx |-> merged, awaiting |-> ask, recs |-> recs,
              reply |-> Reply("ask_" \o ask, TRUE, FALSE),
              filled |-> filled, merged |-> merged, dispatched |-> FALSE] @@ NoEffect
        ELSE Dispatched(filled, merged, final,
                        Dispatch(final, recs, extracted, message, out))

\* 1. the merge of the extracted slots, then the gate
Merging(recs, message, out, extracted, filled) ==
    Gating(recs, message, out, extracted, filled, MergeSlots(filled.ctx, extracted))

\* 0. Contextual Slot Filling, then the merge
SlotFilling(ctx, awaiting, recs, message, out, extracted) ==
    Merging(recs, message, out, extracted, FillSlot(ctx, awaiting, extracted, message))

\* process_message: the agent after the turn, the reply and what the turn
\* wrote; filled is the agent after step 0, merged the context after the
\* merge, raised tells that an exception leaves the call
process_message(ctx, awaiting, recs, message, out) ==
    SlotFilling(ctx, awaiting, recs, message, out, Extracted[message])

\* generate_followup: the reply and the new last_recommendations
generate_followup(ctx) ==
    IF ctx.destination = <<>> \/ ctx.dates = <<>>
    THEN [reply |-> Reply("lost_details", FALSE, FALSE), keep |-> TRUE, recs |-> <<>>]
    ELSE LET Deals(deals) ==
                 [reply |-> Reply(IF deals = <<>> THEN "no_flights" ELSE "top_deals",
                                  FALSE, FALSE),
                  keep |-> FALSE, recs |-> deals]
         IN  Deals(Recommended[ctx.destination, ctx.budget, "", ctx.dates])

\* the date arguments of the calls of create_bundles and get_recommendations
\* that the dispatch of a turn makes, in the order of the calls
QueryDates(ctx, ex, message) ==
    LET is_bundle == In("bundle", message)
                     \/ (ctx.amenities # <<>> /\ ~In("flight", message))
    IN  IF ctx.destination = <<>> THEN <<>>
        ELSE IF ex.intent \in {"bundle", "show_flights"} THEN <<ctx.dates>>
        ELSE IF ex.intent = "refine"
        THEN IF is_bundle
             THEN IF Bundled[ctx.destination, ctx.dates, ctx.budget, ctx.amenities] # <<>>
                  THEN <<ctx.dates>>
                  ELSE <<ctx.dates, Or(Normalized[ctx.dates], ctx.dates)>>
             ELSE <<Or(Normalized[ctx.dates], ctx.dates)>>
        ELSE <<>>

\* the date arguments of the calls of get_recommendations in generate_followup
FollowupDates(ctx) ==
    IF ctx.destination = <<>> \/ ctx.dates = <<>> THEN <<>> ELSE <<ctx.dates>>

----------------------------------------------------------------------------
(* main.py: the websocket endpoint, its tasks and the stores               *)

\* the client connections of the model
Sessions == {1}

\* the credential of an AUTH_TOKEN frame
Tokens == {"jwt"}

VARIABLES
    active_connections,     \* ConnectionManager.active_connections
    phase,                  \* per session: "new", "open", "closed" or "crashed"
    current_context,        \* per session: ConciergeAgent.current_context
    awaiting_slot,          \* per session: ConciergeAgent.awaiting_slot
    last_recommendations,   \* per session: ConciergeAgent.last_recommendations
    user_token,             \* per session: user_token of websocket_endpoint
    tasks,                  \* per session: the tasks of asyncio.create_task that sleep
    idle_task,              \* per session: id of the task idle_task refers to, 0 for None
    watches,                \* the rows of the Watch table
    bookings,               \* the rows of the bookings table
    sent,                   \* the last manager.broadcast, <<>> before the first
    turn,                   \* the last process_message call, <<>> before the first
    turns,                  \* number of utterances processed
    casts,                  \* the calls of manager.broadcast that have not returned
    inbox,                  \* per connection: the messages of its own session it received
    clock,                  \* number of messages the sessions generated
    arg,                    \* the arguments of a call of a function on its own
    val,                    \* what the call returned, Pending before it has
    raw_supplier_feeds,     \* the topic raw_supplier_feeds: events not yet consumed
    deal_events,            \* the topic deal.events: events not yet consumed
    stages,                 \* consume_raw_feeds and consume_and_notify: "running" or "failed"
    log,                    \* the lines the two consumers printed when they failed
    ingested,               \* number of events mock_ingestion_loop produced
    notifying,              \* the event consume_and_notify is inside, <<>> between events
    handled                 \* the last event a consumer is done with, <<>> before the first

vars ==
    <<active_connections, phase, current_context, awaiting_slot, last_recommendations,
      user_token, tasks, idle_task, watches, bookings, sent, turn, turns,
      casts, inbox, clock, arg, val,
      raw_supplier_feeds, deal_events, stages, log, ingested, notifying, handled>>

\* the two Kafka consumers and the feed they work on
feed == <<raw_supplier_feeds, deal_events, stages, log, ingested, notifying, handled>>

\* the consumers are not started
NoFeed ==
    /\ raw_supplier_feeds = <<>>
    /\ deal_events = <<>>
    /\ stages = <<>>
    /\ log = <<>>
    /\ ingested = 0
    /\ notifying = <<>>
    /\ handled = <<>>

\* the delivery of broadcasts, connection by connection, and the calls of
\* functions outside the service
net == <<casts, inbox, clock, arg, val, feed>>

\* a call that has not returned
Pending == [done |-> FALSE]

\* a call that has returned v
Returned(v) == [done |-> TRUE, out |-> v]

Init ==
    /\ active_connections = <<>>
    /\ phase = [s \in Sessions |-> "new"]
    /\ current_context = [s \in Sessions |-> EmptyContext]
    /\ awaiting_slot = [s \in Sessions |-> NoSlot]
    /\ last_recommendations = [s \in Sessions |-> <<>>]
    /\ user_token = [s \in Sessions |-> ""]
    /\ tasks = [s \in Sessions |-> <<>>]
    /\ idle_task = [s \in Sessions |-> 0]
    /\ watches = <<>>
    /\ bookings = <<>>
    /\ sent = <<>>
    /\ turn = <<>>
    /\ turns = 0
    /\ casts = {}
    /\ inbox = [s \in Sessions |-> <<>>]
    /\ clock = 0
    /\ arg = <<>>
    /\ val = Pending
    /\ NoFeed

\* manager.connect and a new ConciergeAgent
Connect(s) ==
    /\ phase[s] = "new"
    /\ phase' = [phase EXCEPT ![s] = "open"]
    /\ active_connections' = Append(active_connections, s)
    /\ UNCHANGED <<current_context, awaiting_slot, last_recommendations, user_token,
                   tasks, idle_task, watches, bookings, sent, turn, turns>>

\* a variant that passes no credential on
CredentialNone(tok) == ""

\* process_message(data, user_token=user_token): the credential passed on
Credential(tok) == tok

\* a frame that starts with AUTH_TOKEN:
AuthFrame(s, tok) ==
    /\ phase[s] = "open"
    /\ user_token[s] # tok
    /\ user_token' = [user_token EXCEPT ![s] = tok]
    /\ UNCHANGED <<active_connections, phase, current_context, awaiting_slot,
                   last_recommendations, tasks, idle_task, watches, bookings, sent,
                   turn, turns>>

\* a variant that leaves the old idle task alone
CancelNone(ts, id) == ts

\* task.cancel(): a task that is still sleeping is cancelled and never wakes;
\* on a finished task and on None it does nothing
Cancel(ts, id) == Filter(ts, LAMBDA t : t.id # id)

\* asyncio.create_task(coro): one more sleeping task
CreateTask(ts, kind, id) == Append(ts, [kind |-> kind, id |-> id])

\* a task leaves its sleep and runs to its end
Wake(ts, i) == [j \in 1..(Len(ts) - 1) |-> IF j < i THEN ts[j] ELSE ts[j + 1]]

\* manager.broadcast(message)
Broadcast(src, s, reply) ==
    [src |-> src, from |-> s, reply |-> reply, to |-> active_connections]

\* a variant that sends the response as it is
StripNot(reply) == reply

\* response.replace("[WAIT]", "").strip()
Strip(reply) == [reply EXCEPT !.wait = FALSE]

\* the turn is one that calls book_flight or book_hotel
Books(recs, message) == Intent(message) = "book" /\ recs # <<>>

\* one iteration of the receive loop for a frame that is an utterance; out is
\* the outcome of the booking calls, of interest only in a turn that books.
\* An exception that leaves process_message leaves the endpoint too.
Utterance(s, message, out) ==
    /\ phase[s] = "open"
    /\ turns < MaxTurns
    /\ ~Books(last_recommendations[s], message) => out = <<"ok", "ok">>
    /\ \E r \in {process_message(current_context[s], awaiting_slot[s],
                                   last_recommendations[s], message, out)},
          cancelled \in {Cancel(tasks[s], idle_task[s])} :
           /\ Len(watches) + Len(r.watch) <= MaxWatches
           /\ Len(bookings) + Len(r.rows) <= MaxBookings
           /\ current_context' = [current_context EXCEPT ![s] = r.ctx]
           /\ awaiting_slot' = [awaiting_slot EXCEPT ![s] = r.awaiting]
           /\ last_recommendations' = [last_recommendations EXCEPT ![s] = r.recs]
           /\ watches' = watches \o r.watch
           /\ bookings' = bookings \o r.rows
           /\ turn' = [session |-> s, message |-> message, failed |-> r.failed,
                       ctx |-> current_context[s], before |-> awaiting_slot[s],
                       recs |-> last_recommendations[s],
                       cancelled |-> cancelled # tasks[s],
                       filled |-> r.filled, merged |-> r.merged, reply |-> r.reply,
                       dispatched |-> r.dispatched, selected |-> r.selected,
                       rows |-> r.rows, watch |-> r.watch,
                       user_token |-> Credential(user_token[s])]
           /\ IF r.raised
              THEN /\ phase' = [phase EXCEPT ![s] = "crashed"]
                   /\ tasks' = [tasks EXCEPT ![s] = cancelled]
                   /\ UNCHANGED <<sent, idle_task>>
              ELSE IF r.reply.wait
              THEN /\ sent' = Broadcast("turn", s, Strip(r.reply))
                   /\ tasks' = [tasks EXCEPT ![s] = CreateTask(cancelled, "followup", turns + 1)]
                   /\ UNCHANGED <<phase, idle_task>>
              ELSE /\ sent' = Broadcast("turn", s, r.reply)
                   /\ tasks' = [tasks EXCEPT ![s] = CreateTask(cancelled, "nudge", turns + 1)]
                   /\ idle_task' = [idle_task EXCEPT ![s] = turns + 1]
                   /\ phase' = phase
    /\ turns' = turns + 1
    /\ UNCHANGED <<active_connections, user_token>>

\* a variant in which every task works on the agent of the first connection
FollowupOneAgent(s, i) ==
    /\ i \in 1..Len(tasks[s])
    /\ tasks[s][i].kind = "followup"
    /\ \E r \in {generate_followup(current_context[1])} :
           /\ last_recommendations' =
                 [last_recommendations EXCEPT ![1] = IF r.keep THEN @ ELSE r.recs]
           /\ sent' = Broadcast("followup", s, r.reply)
    /\ tasks' = [tasks EXCEPT ![s] = Wake(@, i)]
    /\ UNCHANGED <<active_connections, phase, current_context, awaiting_slot, user_token,
                   idle_task, watches, bookings, turn, turns>>

\* send_followup after its sleep: generate_followup and a broadcast
Followup(s, i) ==
    /\ i \in 1..Len(tasks[s])
    /\ tasks[s][i].kind = "followup"
    /\ \E r \in {generate_followup(current_context[s])} :
           /\ last_recommendations' =
                 [last_recommendations EXCEPT ![s] = IF r.keep THEN @ ELSE r.recs]
           /\ sent' = Broadcast("followup", s, r.reply)
    /\ tasks' = [tasks EXCEPT ![s] = Wake(@, i)]
    /\ UNCHANGED <<active_connections, phase, current_context, awaiting_slot, user_token,
                   idle_task, watches, bookings, turn, turns>>

\* send_nudge after its sleep: ConciergeAgent has no generate_nudge, the call
\* raises AttributeError, which the task does not catch
Nudge(s, i) ==
    /\ i \in 1..Len(tasks[s])
    /\ tasks[s][i].kind = "nudge"
    /\ tasks' = [tasks EXCEPT ![s] = Wake(@, i)]
    /\ UNCHANGED <<active_connections, phase, current_context, awaiting_slot,
                   last_recommendations, user_token, idle_task, watches, bookings,
                   sent, turn, turns>>

\* WebSocketDisconnect: manager.disconnect(websocket)
Disconnect(s) ==
    /\ phase[s] = "open"
    /\ phase' = [phase EXCEPT ![s] = "closed"]
    /\ active_connections' = Filter(active_connections, LAMBDA c : c # s)
    /\ UNCHANGED <<current_context, awaiting_slot, last_recommendations, user_token,
                   tasks, idle_task, watches, bookings, sent, turn, turns>>

\* one client: a broadcast has one connection to send to and is a part of
\* the step that makes it
Next ==
    \/ \E s \in Sessions : Connect(s) /\ UNCHANGED net
    \/ \E s \in Sessions, tok \in Tokens : AuthFrame(s, tok) /\ UNCHANGED net
    \/ \E s \in Sessions, m \in Utterances, out \in Outcomes \X Outcomes :
          Utterance(s, m, out) /\ UNCHANGED net
    \/ \E s \in Sessions, i \in 1..MaxTurns : Followup(s, i) /\ UNCHANGED net
    \/ \E s \in Sessions, i \in 1..MaxTurns : Nudge(s, i) /\ UNCHANGED net
    \/ \E s \in Sessions : Disconnect(s) /\ UNCHANGED net

Spec == Init /\ [][Next]_vars

----------------------------------------------------------------------------
(* main.py: two clients, and manager.broadcast one send at a time          *)

\* the client connections of the second specification
Peers == {1, 2}

\* what its clients say; they send no AUTH_TOKEN frame
Chat ==
    {<<"mumbai", "on", "january", "10th">>, <<"book", "it">>,
     <<"track", "mumbai", "under", "1500">>, <<"delhi">>}

Init2 ==
    /\ active_connections = <<>>
    /\ phase = [s \in Peers |-> "new"]
    /\ current_context = [s \in Peers |-> EmptyContext]
    /\ awaiting_slot = [s \in Peers |-> NoSlot]
    /\ last_recommendations = [s \in Peers |-> <<>>]
    /\ user_token = [s \in Peers |-> ""]
    /\ tasks = [s \in Peers |-> <<>>]
    /\ idle_task = [s \in Peers |-> 0]
    /\ watches = <<>>
    /\ bookings = <<>>
    /\ sent = <<>>
    /\ turn = <<>>
    /\ turns = 0
    /\ casts = {}
    /\ inbox = [s \in Peers |-> <<>>]
    /\ clock = 0
    /\ arg = <<>>
    /\ val = Pending
    /\ NoFeed

\* manager.broadcast(message) up to its first await: the call is made and has
\* sent to no connection yet. src is "turn", "followup" or "alert", s the
\* session the message comes from, id the turn that made it or its task
Begin(src, s, id, stamp) ==
    casts' = casts \cup {[src |-> src, from |-> s, id |-> id, stamp |-> stamp, next |-> 1]}

\* connection.send_text(message): the connection gets the message; inbox
\* keeps the messages of the connection's own turns and follow-ups
Received(box, c, cast) ==
    IF cast.from = c THEN [box EXCEPT ![c] = Append(@, cast.stamp)] ELSE box

\* the endpoint of s is inside the broadcast of its turn
Busy(s) == \E c \in casts : c.src = "turn" /\ c.from = s

\* the tasks of a turn are created when its broadcast has returned
Created(id) == ~\E c \in casts : c.src = "turn" /\ c.id = id

Connect2(s) == Connect(s) /\ UNCHANGED net

Utterance2(s, message) ==
    /\ ~Busy(s)
    /\ Utterance(s, message, <<"ok", "ok">>)
    /\ IF phase'[s] = "crashed" THEN UNCHANGED <<casts, clock>>
       ELSE Begin("turn", s, turns + 1, clock + 1) /\ clock' = clock + 1
    /\ UNCHANGED <<inbox, arg, val, feed>>

Followup2(s, i) ==
    /\ i \in 1..Len(tasks[s])
    /\ Created(tasks[s][i].id)
    /\ Followup(s, i)
    /\ Begin("followup", s, tasks[s][i].id, clock + 1)
    /\ clock' = clock + 1
    /\ UNCHANGED <<inbox, arg, val, feed>>

Nudge2(s, i) ==
    /\ i \in 1..Len(tasks[s])
    /\ Created(tasks[s][i].id)
    /\ Nudge(s, i)
    /\ UNCHANGED net

\* WebSocketDisconnect leaves receive_text
Disconnect2(s) == ~Busy(s) /\ Disconnect(s) /\ UNCHANGED net

\* consume_and_notify: a deal event for the destination of the active watch j
\* at a price that its target admits; one broadcast after the other
Alert(j) ==
    /\ j \in 1..Len(watches)
    /\ ~\E c \in casts : c.src = "alert"
    /\ Begin("alert", 0, j, 0)
    /\ UNCHANGED <<active_connections, phase, current_context, awaiting_slot,
                   last_recommendations, user_token, tasks, idle_task, watches,
                   bookings, sent, turn, turns, inbox, clock, arg, val, feed>>

\* a broadcast goes on from an await: the next send of its loop over
\* active_connections, or its return when the list is at its end
Send(cast) ==
    /\ IF cast.next <= Len(active_connections)
       THEN /\ inbox' = Received(inbox, active_connections[cast.next], cast)
            /\ casts' = (casts \ {cast}) \cup {[cast EXCEPT !.next = @ + 1]}
       ELSE /\ casts' = casts \ {cast}
            /\ inbox' = inbox
    /\ UNCHANGED <<active_connections, phase, current_context, awaiting_slot,
                   last_recommendations, user_token, tasks, idle_task, watches,
                   bookings, sent, turn, turns, clock, arg, val, feed>>

Next2 ==
    \/ \E s \in Peers : Connect2(s)
    \/ \E s \in Peers, m \in Chat : Utterance2(s, m)
    \/ \E s \in Peers, i \in 1..MaxTurns : Followup2(s, i)
    \/ \E s \in Peers, i \in 1..MaxTurns : Nudge2(s, i)
    \/ \E s \in Peers : Disconnect2(s)
    \/ \E j \in 1..MaxWatches : Alert(j)
    \/ \E cast \in casts : Send(cast)

Spec2 == Init2 /\ [][Next2]_vars

----------------------------------------------------------------------------
(* Calls of the functions on their own                                     *)

\* the state of the service: none of it is there
service ==
    <<active_connections, phase, current_context, awaiting_slot, last_recommendations,
      user_token, tasks, idle_task, watches, bookings, sent, turn, turns,
      casts, inbox, clock, feed>>

NoService ==
    /\ active_connections = <<>>
    /\ phase = <<>>
    /\ current_context = <<>>
    /\ awaiting_slot = <<>>
    /\ last_recommendations = <<>>
    /\ user_token = <<>>
    /\ tasks = <<>>
    /\ idle_task = <<>>
    /\ watches = <<>>
    /\ bookings = <<>>
    /\ sent = <<>>
    /\ turn = <<>>
    /\ turns = 0
    /\ casts = {}
    /\ inbox = <<>>
    /\ clock = 0
    /\ NoFeed

\* the texts of at most n words over the words W
RECURSIVE TextsOver(_, _)
TextsOver(W, n) ==
    IF n = 0 THEN {<<>>}
    ELSE LET shorter == TextsOver(W, n - 1)
         IN  shorter \cup {Append(t, w) : t \in shorter, w \in W}

\* words in an utterance given to extract
MaxWords == 4

\* words with the trigger keywords of the intents
IntentWords ==
    {"track", "alert", "book", "pick", "bundle", "flights", "show", "hotel", "pool",
     "trip", "mumbai"}

InitIntent ==
    /\ NoService
    /\ arg \in TextsOver(IntentWords, MaxWords)
    /\ val = Pending

\* nlu.extract(text)
CallExtract ==
    /\ val = Pending
    /\ val' = Returned(extract(arg))
    /\ UNCHANGED <<service, arg>>

SpecIntent == InitIntent /\ [][CallExtract]_vars

\* words of a route: cities, from, to and words that are neither
RouteWords == {"from", "to", "mumbai", "delhi", "goa", "next", "week"}

InitRoute ==
    /\ NoService
    /\ arg \in TextsOver(RouteWords, MaxWords)
    /\ val = Pending

SpecRoute == InitRoute /\ [][CallExtract]_vars

\* words in a text given to normalize_date
MaxDateWords == 3

\* words of dates: month names, days, years, canonical dates, relative dates
\* and words that are no part of a date
DateWords ==
    {"january", "dec", "10th", "25", "2", "2026", "2026-01-10", "2025-12", "in",
     "next", "week", "days", "tomorrow", "xyz", "hello"}

\* weeks or days that a relative date lies ahead
MaxAhead == 4

\* the texts of dates: a text with week or day and a number is a relative date
DateInputs ==
    {t \in TextsOver(DateWords, MaxDateWords) :
        In("week", t) \/ In("day", t) => FirstNum(t) <= MaxAhead}

InitDate ==
    /\ NoService
    /\ arg \in DateInputs
    /\ val = Pending

\* agent.normalize_date(date_str)
CallNormalize ==
    /\ val = Pending
    /\ val' = Returned(normalize_date(arg))
    /\ UNCHANGED <<service, arg>>

\* agent.normalize_date(out) for the string out that the first call returned
CallAgain ==
    /\ val.done /\ val.out # None
    /\ DOMAIN val = {"done", "out"}
    /\ val' = [done |-> TRUE, out |-> val.out, again |-> normalize_date(val.out)]
    /\ UNCHANGED <<service, arg>>

SpecDate == InitDate /\ [][CallNormalize \/ CallAgain]_vars

\* the highest price of a flight or a lodging given to calculate_fit_score
MaxPrice == 5000

Prices == {0, 80, 200, MaxPrice}

\* the amenities of a lodging, and the amenities a user asks for
TagLists == {<<>>, <<"wifi">>, <<"pet">>, <<"wifi", "pool", "breakfast", "spa">>}

\* a flight, a lodging, twice the two medians, a budget (0 for none) and the
\* amenities asked for
InitFit ==
    /\ NoService
    /\ arg \in [flight : [price : Prices], hotel : [price : Prices, amenities : TagLists],
                 f_med2 : {0, 400, 600}, h_med2 : {0, 200},
                 budget : {0, 300, 2 * MaxPrice}, amenities : TagLists]
    /\ val = Pending

\* deals_agent.calculate_fit_score(flight, hotel, f_med, h_med, budget, amenities)
CallFitScore ==
    /\ val = Pending
    /\ val' = Returned(calculate_fit_score(arg.flight, arg.hotel, arg.f_med2, arg.h_med2,
                                           arg.budget, arg.amenities))
    /\ UNCHANGED <<service, arg>>

SpecFit == InitFit /\ [][CallFitScore]_vars

\* the lists of at most n different elements of S
RECURSIVE ListsOver(_, _)
ListsOver(S, n) ==
    IF n = 0 THEN {<<>>}
    ELSE LET shorter == ListsOver(S, n - 1)
             longer == {Append(l, x) : l \in shorter, x \in S}
         IN  shorter \cup {l \in longer : \A i \in 1..(Len(l) - 1) : l[i] # l[Len(l)]}

\* rows that one query of create_bundles fetches
MaxFetched == 2

\* the flights and the lodgings of a catalog, as get_recommendations returns them
FlightRows ==
    {[type |-> "Flight", id |-> 1, price |-> 100],
     [type |-> "Flight", id |-> 2, price |-> 200],
     [type |-> "Flight", id |-> 3, price |-> 300]}

HotelRows ==
    {[type |-> "Hotel", id |-> 1, price |-> 80, amenities |-> <<"wifi", "workspace">>],
     [type |-> "Hotel", id |-> 2, price |-> 120, amenities |-> <<"pool", "spa">>],
     [type |-> "Hotel", id |-> 3, price |-> 90, amenities |-> <<"pet">>],
     [type |-> "Hotel", id |-> 4, price |-> 200,
      amenities |-> <<"wifi", "pool", "breakfast", "spa">>]}

\* what the two queries of create_bundles return, a budget (0 for none) and
\* the amenities asked for
InitBundle ==
    /\ NoService
    /\ arg \in [flights : ListsOver(FlightRows, MaxFetched),
                 hotels : ListsOver(HotelRows, MaxFetched),
                 budget : {0, 250, 400},
                 amenities : {<<>>, <<"spa">>, <<"pool", "spa">>, <<"pet">>}]
    /\ val = Pending

\* deals_agent.create_bundles(destination, date=date, budget=budget, amenities=amenities)
CallCreateBundles ==
    /\ val = Pending
    /\ val' = Returned(TopBundles(arg.flights, arg.hotels, arg.budget, arg.amenities))
    /\ UNCHANGED <<service, arg>>

SpecBundle == InitBundle /\ [][CallCreateBundles]_vars

\* a destination, a budget (0 for none), a category ("" for both) and a date
\* (<<>> for none) of a query on the catalog Flights and Listings
InitSearch ==
    /\ NoService
    /\ arg \in [destination : {<<>>, <<"mumbai">>, <<"goa">>, <<"paris">>},
                 budget : {0, 100, 250, 1000},
                 category : {"", "Flight", "Hotel"},
                 date : {<<>>, <<"2026-01-10">>, <<"2026-01-12">>, <<"2026-01">>,
                         <<"2025-12-24">>, <<"2026-03-01">>}]
    /\ val = Pending

\* deals_agent.get_recommendations(destination, budget, category, date)
CallRecommend ==
    /\ val = Pending
    /\ val' = Returned(get_recommendations(arg.destination, arg.budget, arg.category, arg.date))
    /\ UNCHANGED <<service, arg>>

SpecSearch == InitSearch /\ [][CallRecommend]_vars

\* what last_recommendations holds when a book turn comes: the first rows of
\* a search for flights, of a search for lodgings or of the bundles
RecLists ==
    {Take(r, n) : n \in 1..3,
                  r \in {get_recommendations(<<"mumbai">>, 0, "Flight", <<>>),
                         get_recommendations(<<"goa">>, 0, "Hotel", <<>>),
                         create_bundles(<<"goa">>, <<>>, 0, <<>>)}} \ {<<>>}

\* utterances that book: without an index, with an index, with the index 0
BookTexts ==
    {<<"book", "it">>} \cup {<<"book", w, n>> : w \in {"option", "bundle"},
                                               n \in {"0", "1", "2", "9"}}

\* a list of recommendations, an utterance and the outcomes of the booking calls
InitBook ==
    /\ NoService
    /\ arg \in [recs : RecLists, message : BookTexts, out : Outcomes \X Outcomes]
    /\ val = Pending

\* agent.process_message(data) of an agent with these last_recommendations
CallProcess ==
    /\ val = Pending
    /\ val' = Returned(SlotFilling(EmptyContext, NoSlot, arg.recs, arg.message, arg.out,
                                   extract(arg.message)))
    /\ UNCHANGED <<service, arg>>

SpecBook == InitBook /\ [][CallProcess]_vars

\* the words of the first utterance of a session
FirstWords == {"book", "it", "on", "january", "10th", "mumbai"}

\* the first utterance of a session
InitFirst ==
    /\ NoService
    /\ arg \in TextsOver(FirstWords, MaxWords)
    /\ val = Pending

\* agent.process_message(data) of a new ConciergeAgent
CallFirst ==
    /\ val = Pending
    /\ val' = Returned(SlotFilling(EmptyContext, NoSlot, <<>>, arg, <<"ok", "ok">>,
                                   extract(arg)))
    /\ UNCHANGED <<service, arg>>

SpecFirst == InitFirst /\ [][CallFirst]_vars

\* turns of one dialogue
MaxDialogue == 7

\* the utterances that open a dialogue: the flight flow and the hotel flow
Openers ==
    {<<"plan", "a", "trip">>, <<"plan", "a", "trip", "to", "goa">>,
     <<"find", "me", "a", "hotel">>, <<"find", "me", "a", "hotel", "in", "goa">>}

\* the well-formed answers to a prompt of the kind given, for the context ctx
WellFormed(kind, ctx) ==
    IF kind \in {"ask_destination", "where"} THEN {<<"delhi">>, <<"goa">>, <<"mumbai">>}
    ELSE IF kind \in {"ask_dates", "ask_check_in", "ask_check_out", "when"}
    THEN {<<"2026-01-10">>, <<"9999-12-30">>}
    ELSE IF kind = "ask_origin"
    THEN {<<"delhi">>, <<"goa">>, <<"mumbai">>} \ {ctx.destination}
    ELSE IF kind = "ask_travelers" THEN {<<"2">>, <<"3">>}
    ELSE {}

\* a new ConciergeAgent, as run_pilot makes it; prompts are the replies it
\* has given
InitPilot ==
    /\ active_connections = <<>>
    /\ phase = [s \in Sessions |-> "new"]
    /\ current_context = [s \in Sessions |-> EmptyContext]
    /\ awaiting_slot = [s \in Sessions |-> NoSlot]
    /\ last_recommendations = [s \in Sessions |-> <<>>]
    /\ user_token = [s \in Sessions |-> ""]
    /\ tasks = [s \in Sessions |-> <<>>]
    /\ idle_task = [s \in Sessions |-> 0]
    /\ watches = <<>>
    /\ bookings = <<>>
    /\ sent = <<>>
    /\ turn = [message |-> <<>>, prompts |-> <<>>]
    /\ turns = 0
    /\ casts = {}
    /\ inbox = [s \in Sessions |-> <<>>]
    /\ clock = 0
    /\ arg = <<>>
    /\ val = Pending
    /\ NoFeed

\* user_turn(text) of run_pilot: agent.process_message(text)
UserTurn(s, message) ==
    /\ turns < MaxDialogue
    /\ \E r \in {SlotFilling(current_context[s], awaiting_slot[s], last_recommendations[s],
                              message, <<"ok", "ok">>, extract(message))} :
           /\ current_context' = [current_context EXCEPT ![s] = r.ctx]
           /\ awaiting_slot' = [awaiting_slot EXCEPT ![s] = r.awaiting]
           /\ last_recommendations' = [last_recommendations EXCEPT ![s] = r.recs]
           /\ turn' = [message |-> message, prompts |-> Append(turn.prompts, r.reply.kind)]
    /\ turns' = turns + 1
    /\ UNCHANGED <<active_connections, phase, user_token, tasks, idle_task, watches,
                   bookings, sent, net>>

\* the first utterance of the dialogue
Opens(s, message) == turns = 0 /\ UserTurn(s, message)

\* the user answers the prompt of the last reply
Answers(s, message) ==
    /\ turns > 0
    /\ message \in WellFormed(turn.prompts[Len(turn.prompts)], current_context[s])
    /\ UserTurn(s, message)

NextPilot ==
    \/ \E s \in Sessions, m \in Openers : Opens(s, m)
    \/ \E s \in Sessions, m \in {<<"delhi">>, <<"goa">>, <<"mumbai">>, <<"2">>, <<"3">>,
                                   <<"2026-01-10">>, <<"9999-12-30">>} : Answers(s, m)

SpecPilot == InitPilot /\ [][NextPilot]_vars

----------------------------------------------------------------------------
(* deals_agent.py and main.py: the feed, the detection of deals, the alerts *)

\* raw events that mock_ingestion_loop produces in one behaviour
MaxEvents == 2

\* data.get(key, default)
Get(data, key, default) == IF key \in DOMAIN data THEN data[key] ELSE default

\* mock_ingestion_loop: the price of an event and the catalog price it comes
\* from (its avg_30d_price); a row of the catalog may have the price 0
Quotes == {<<0, 0>>, <<75, 100>>, <<85, 100>>, <<86, 100>>}

\* mock_ingestion_loop: the events of a flight to Mumbai and of a lodging in Goa
RawEvents ==
    {[type |-> "flight", destination |-> <<"mumbai">>, price |-> q[1],
      avg_30d_price |-> q[2], airline |-> "indigo", seats_left |-> n] :
        q \in Quotes, n \in {4, 5}}
    \cup {[type |-> "hotel", destination |-> <<"goa">>, price |-> q[1],
           avg_30d_price |-> q[2], availability |-> n] :
        q \in Quotes, n \in {2, 3}}

\* Rule 1 of consume_raw_feeds: the price is at most 0.85 of the average
PriceDropAlways(price, avg) == TRUE

PriceDrop(price, avg) == 100 * price <= 85 * avg

\* Rule 2 of consume_raw_feeds
ScarceNever(data) == FALSE

Scarce(data) == Get(data, "seats_left", 10) < 5 \/ Get(data, "availability", 10) < 3

\* int((1 - price/avg) * 100) of a price drop
Discount(price, avg) == ((avg - price) * 100) \div avg

\* consume_raw_feeds on one message (lines 126-161): raised when the division
\* by the average fails, else the deal event to publish, <<>> for none
Detected(data) ==
    LET price == Get(data, "price", 0)
        avg == Get(data, "avg_30d_price", price)
    IN  IF PriceDrop(price, avg) /\ avg = 0 THEN [raised |-> TRUE, event |-> <<>>]
        ELSE IF ~PriceDrop(price, avg) THEN [raised |-> FALSE, event |-> <<>>]
        ELSE [raised |-> FALSE,
              event |-> [type |-> "deal_found", destination |-> data.destination,
                         price |-> price, original_price |-> avg,
                         tags |-> <<ToString(Discount(price, avg)) \o "% OFF">>
                                  \o (IF Scarce(data) THEN <<"Selling Fast">> ELSE <<>>)]]

\* the except clause of a consumer: the line it prints; its finally clause
\* stops the Kafka consumer, the async for is left
FailedAgain(stage) == stages

Failed(stage) == [stages EXCEPT ![stage] = "failed"]

\* the Watch table when the consumers start: rows of set_watch, and a row
\* that is not active
WatchTables ==
    {<<>>,
     <<set_watch(<<"mumbai">>, 85), set_watch(<<"goa">>, 2000)>>,
     <<set_watch(<<"mumbai">>, 80), set_watch(<<"mumbai">>, 85)>>,
     <<[set_watch(<<"mumbai">>, 2000) EXCEPT !.is_active = FALSE],
       set_watch(<<"mumbai">>, 85)>>}

\* the query of consume_and_notify (lines 104-108): the rows of the active
\* watches on the destination of the event with a target of at least its price
WatchedAnyPlace(rows, event) ==
    {i \in 1..Len(rows) : rows[i].is_active /\ rows[i].target_price >= event.price}

Watched(rows, event) ==
    {i \in 1..Len(rows) : /\ rows[i].destination = event.destination
                          /\ rows[i].is_active
                          /\ rows[i].target_price >= event.price}

\* the rows i of a set, in the order of the table
RECURSIVE InOrderOf(_)
InOrderOf(S) == IF S = {} THEN <<>>
                ELSE LET i == CHOOSE i \in S : \A j \in S : i <= j
                     IN  <<i>> \o InOrderOf(S \ {i})

InitDeals ==
    /\ active_connections = <<>>
    /\ phase = [s \in Peers |-> "new"]
    /\ current_context = [s \in Peers |-> EmptyContext]
    /\ awaiting_slot = [s \in Peers |-> NoSlot]
    /\ last_recommendations = [s \in Peers |-> <<>>]
    /\ user_token = [s \in Peers |-> ""]
    /\ tasks = [s \in Peers |-> <<>>]
    /\ idle_task = [s \in Peers |-> 0]
    /\ watches \in WatchTables
    /\ bookings = <<>>
    /\ sent = <<>>
    /\ turn = <<>>
    /\ turns = 0
    /\ casts = {}
    /\ inbox = [s \in Peers |-> <<>>]
    /\ clock = 0
    /\ arg = <<>>
    /\ val = Pending
    /\ raw_supplier_feeds = <<>>
    /\ deal_events = <<>>
    /\ stages = [detector |-> "running", alerts |-> "running"]
    /\ log = <<>>
    /\ ingested = 0
    /\ notifying = <<>>
    /\ handled = <<>>

\* the sessions of the clients
chat ==
    <<current_context, awaiting_slot, last_recommendations, user_token, tasks, idle_task,
      bookings, sent, turn, turns, casts, clock, arg, val>>

ConnectDeals(s) == Connect(s) /\ UNCHANGED net

DisconnectDeals(s) == Disconnect(s) /\ UNCHANGED net

\* mock_ingestion_loop: one event to raw_supplier_feeds
Ingest(data) ==
    /\ ingested < MaxEvents
    /\ ingested' = ingested + 1
    /\ raw_supplier_feeds' = Append(raw_supplier_feeds, data)
    /\ UNCHANGED <<active_connections, phase, watches, inbox, chat,
                   deal_events, stages, log, notifying, handled>>

\* consume_raw_feeds: one turn of its async for; out is the outcome of
\* producer.send_and_wait
Detect(out) ==
    /\ stages.detector = "running"
    /\ raw_supplier_feeds # <<>>
    /\ LET data == Head(raw_supplier_feeds)
           d == Detected(data)
           raised == d.raised \/ (d.event # <<>> /\ out = "raise")
       IN  /\ d.event = <<>> => out = "ok"
           /\ raw_supplier_feeds' = Tail(raw_supplier_feeds)
           /\ deal_events' = IF d.event # <<>> /\ ~raised
                             THEN Append(deal_events, d.event) ELSE deal_events
           /\ stages' = IF raised THEN Failed("detector") ELSE stages
           /\ log' = IF raised THEN Append(log, "Consumer failed") ELSE log
           /\ handled' = [stage |-> "detector", data |-> data, raised |-> raised, out |-> out,
                          published |-> IF d.event # <<>> /\ ~raised
                                        THEN <<d.event>> ELSE <<>>]
    /\ UNCHANGED <<active_connections, phase, watches, inbox, chat, ingested, notifying>>

\* consume_and_notify is done with the event n it was inside
Done(n, raised) ==
    [stage |-> "alerts", event |-> n.event, rows |-> n.rows, live |-> n.live,
     got |-> n.got, raised |-> raised]

\* consume_and_notify: the next message of deal.events and the query on the
\* Watch table; live are the connections of that moment, got the alerts sent
\* so far, as pairs of a connection and a row; row and next are the places
\* of the loop over the rows and of the loop of manager.broadcast
Consume ==
    /\ stages.alerts = "running"
    /\ notifying = <<>>
    /\ deal_events # <<>>
    /\ deal_events' = Tail(deal_events)
    /\ LET event == Head(deal_events)
           begun == [event |-> event, rows |-> InOrderOf(Watched(watches, event)),
                     row |-> 1, next |-> 1, got |-> {},
                     live |-> {active_connections[i] : i \in 1..Len(active_connections)}]
       IN  IF begun.rows = <<>>
           THEN notifying' = <<>> /\ handled' = Done(begun, FALSE)
           ELSE notifying' = begun /\ handled' = handled
    /\ UNCHANGED <<active_connections, phase, watches, inbox, chat,
                   raw_supplier_feeds, stages, log, ingested>>

\* the message of an alert
AlertMsg(w, event) ==
    [alert |-> w.destination, price |-> event.price, target_price |-> w.target_price]

\* manager.broadcast(alert_msg) goes on from an await: the next send of its
\* loop over active_connections, with the outcome out of send_text, or its
\* return when the list is at its end, and then the next row or the next event
Notify(out) ==
    /\ stages.alerts = "running"
    /\ notifying # <<>>
    /\ LET n == notifying
           w == n.rows[n.row]
       IN  IF n.next <= Len(active_connections)
           THEN LET c == active_connections[n.next]
                IN  IF out = "ok"
                    THEN /\ inbox' = [inbox EXCEPT ![c] = Append(@, AlertMsg(watches[w], n.event))]
                         /\ notifying' = [n EXCEPT !.next = @ + 1, !.got = @ \cup {<<c, w>>}]
                         /\ UNCHANGED <<stages, log, handled>>
                    ELSE /\ stages' = Failed("alerts")
                         /\ log' = Append(log, "Alert Listener Failed")
                         /\ notifying' = <<>>
                         /\ handled' = Done(n, TRUE)
                         /\ inbox' = inbox
           ELSE /\ out = "ok"
                /\ IF n.row < Len(n.rows)
                   THEN /\ notifying' = [n EXCEPT !.row = @ + 1, !.next = 1]
                        /\ handled' = handled
                   ELSE /\ notifying' = <<>>
                        /\ handled' = Done(n, FALSE)
                /\ UNCHANGED <<stages, log, inbox>>
    /\ UNCHANGED <<active_connections, phase, watches, chat,
                   raw_supplier_feeds, deal_events, ingested>>

NextDeals ==
    \/ \E s \in Peers : ConnectDeals(s)
    \/ \E s \in Peers : DisconnectDeals(s)
    \/ \E data \in RawEvents : Ingest(data)
    \/ \E out \in {"ok", "raise"} : Detect(out)
    \/ Consume
    \/ \E out \in {"ok", "raise"} : Notify(out)

SpecDeals == InitDeals /\ [][NextDeals]_vars

----------------------------------------------------------------------------
(* Properties                                                              *)

\* the session of the last turn
Last == turn.session

\* the last turn reached the slot-filling gate
Gated ==
    turns > 0 /\ Extracted[turn.message].intent \in {"search", "refine"} /\ turn.recs = <<>>

\* the last turn asked for the slot and did nothing else
Asked(slot) ==
    /\ turn.reply = Reply("ask_" \o slot, TRUE, FALSE)
    /\ awaiting_slot[Last] = slot
    /\ ~turn.dispatched
    /\ turn.selected = <<>> /\ turn.rows = <<>> /\ turn.watch = <<>>

\* C1: between turns awaiting_slot names only a context field that is unset,
\* and a turn that starts with awaiting_slot set has reset it when step 0 is
\* over, before the merge and the gate
C1_AwaitingOnlyUnset ==
    /\ \A s \in Sessions :
          awaiting_slot[s] # NoSlot =>
              awaiting_slot[s] \in Slots /\ Unset(current_context[s], awaiting_slot[s])
    /\ turns > 0 /\ turn.before # NoSlot => turn.filled.awaiting = NoSlot

\* a turn answered the check-in prompt and the gate then asked for the check-out
C1_Witness ==
    turns > 0 /\ turn.before = "check_in" /\ turn.filled.ctx.check_in # <<>>
    /\ awaiting_slot[Last] = "check_out"

\* the first slot that is unset, in the order destination, check-in (hotel) or
\* dates (flight), check-out (hotel), origin (flight), travelers
FirstUnset(ctx, hotel) ==
    IF ctx.destination = <<>> THEN "destination"
    ELSE IF hotel /\ ctx.check_in = <<>> THEN "check_in"
    ELSE IF ~hotel /\ ctx.dates = <<>> THEN "dates"
    ELSE IF hotel /\ ctx.check_out = <<>> THEN "check_out"
    ELSE IF ~hotel /\ ctx.origin = <<>> THEN "origin"
    ELSE IF ctx.travelers = 0 THEN "travelers"
    ELSE NoSlot

\* "Plan a trip" as the first utterance is asked where the trip goes
PlanATrip ==
    turns = 1 /\ turn.message = <<"plan", "a", "trip">> => Asked("destination")

Prompts(ctx, hotel) ==
    << <<"destination", ctx.destination = <<>> >>,
       <<IF hotel THEN "check_in" ELSE "dates", ctx.dates = <<>> /\ ctx.check_in = <<>> >>,
       <<"check_out", hotel /\ ctx.check_in # <<>> /\ ctx.check_out = <<>> >>,
       <<"origin", ~hotel /\ ctx.origin = <<>> >>,
       <<"travelers", ctx.travelers = 0>> >>

MergeFields ==
    {"destination", "origin", "budget", "dates", "travelers", "nights", "amenities"}

Blank(field) == IF field \in {"budget", "travelers", "nights"} THEN 0 ELSE <<>>

\* C3 as stated: a field that is set before the merge keeps its value
C3_NoOverwrite ==
    turns > 0 =>
        \A f \in MergeFields :
            turn.filled.ctx[f] # Blank(f) => turn.merged[f] = turn.filled.ctx[f]

\* C3: the merge keeps a destination that is set; each other field takes the
\* value the utterance yields, set or not (dates only a value with a month
\* name or a digit), and keeps its own when the utterance yields none;
\* check_in and check_out are not written
C3_Merge ==
    turns > 0 =>
        LET ex == Extracted[turn.message]
            old == turn.filled.ctx
            new == turn.merged
            valid(f) == f = "dates" => HasMonth(ex.dates) \/ AnyDigit(ex.dates)
        IN  /\ old.destination # <<>> => new.destination = old.destination
            /\ old.destination = <<>> => new.destination = ex.destination
            /\ \A f \in MergeFields \ {"destination"} :
                  new[f] = IF ex[f] # Blank(f) /\ valid(f) THEN ex[f] ELSE old[f]
            /\ new.check_in = old.check_in /\ new.check_out = old.check_out

\* a turn whose merge replaced the dates and kept the destination although
\* the utterance named another city
C3_Witness ==
    /\ turns > 0
    /\ turn.filled.ctx.dates # <<>> /\ turn.merged.dates # turn.filled.ctx.dates
    /\ turn.filled.ctx.destination # <<>>
    /\ Extracted[turn.message].destination # <<>>
    /\ Extracted[turn.message].destination # turn.filled.ctx.destination
    /\ turn.merged.destination = turn.filled.ctx.destination

\* the last turn answered an origin prompt with nothing but a city of the
\* vocabulary that is not the destination
OriginAnswer ==
    /\ turns > 0 /\ turn.before = "origin" /\ turn.ctx.destination # <<>>
    /\ \E i \in 1..Len(known_cities) : turn.message = known_cities[i]
    /\ turn.message # turn.ctx.destination

\* C4: such an answer becomes the origin, the destination stays and the
\* origin prompt is no longer awaited
C4_OriginNotDestination ==
    OriginAnswer =>
        /\ turn.filled.ctx.origin = turn.message /\ turn.filled.awaiting = NoSlot
        /\ current_context[Last].origin = turn.message
        /\ turn.filled.ctx.destination = turn.ctx.destination
        /\ current_context[Last].destination = turn.ctx.destination
        /\ awaiting_slot[Last] # "origin"

\* "delhi" answered the origin prompt of a trip to mumbai
C4_Witness ==
    /\ OriginAnswer /\ turn.message = <<"delhi">>
    /\ current_context[Last].destination = <<"mumbai">>
    /\ current_context[Last].origin = <<"delhi">>

\* the last turn answered a check-out prompt with "N nights", N >= 1, and the
\* check-in is a canonical date
NightsAnswer ==
    /\ turns > 0 /\ turn.before = "check_out"
    /\ Len(turn.ctx.check_in) = 1 /\ IsCanon(turn.ctx.check_in[1])
    /\ Len(turn.message) = 2 /\ IsNum(turn.message[1]) /\ IntOf(turn.message[1]) >= 1
    /\ turn.message[2] \in {"night", "nights"}

\* the day N days after the check-in of the last turn, Overflow past 9999-12-31
CheckOutDay == AddDays(CanonYMD(turn.ctx.check_in[1]), IntOf(turn.message[1]))

\* the examples: 3 nights from 2026-01-10 end on 2026-01-13, 30 on 2026-02-09
NightsExamples ==
    turn.ctx.check_in = <<"2026-01-10">> =>
        /\ turn.message[1] = "3" => current_context[Last].check_out = <<"2026-01-13">>
        /\ turn.message[1] = "30" => current_context[Last].check_out = <<"2026-02-09">>

\* C5 as stated: the check-out is the check-in plus N days, for every N
C5_EveryN ==
    NightsAnswer =>
        /\ current_context[Last].check_out # <<>>
        /\ CanonYMD(current_context[Last].check_out[1]) = CheckOutDay
        /\ current_context[Last].nights = IntOf(turn.message[1])
        /\ turn.filled.awaiting = NoSlot

\* C5: the check-out is the check-in plus N days when that day is no later
\* than 9999-12-31 and stays unset otherwise; nights is N and the check-out
\* prompt is reset in step 0 in both cases
C5_NightsToCheckOut ==
    NightsAnswer =>
        /\ IF CheckOutDay = Overflow THEN current_context[Last].check_out = <<>>
           ELSE /\ current_context[Last].check_out # <<>>
                /\ CanonYMD(current_context[Last].check_out[1]) = CheckOutDay
        /\ current_context[Last].nights = IntOf(turn.message[1])
        /\ turn.filled.awaiting = NoSlot
        /\ NightsExamples

\* "3 nights" after a check-in on 2026-01-10
C5_Witness ==
    /\ NightsAnswer /\ turn.message = <<"3", "nights">>
    /\ turn.ctx.check_in = <<"2026-01-10">>
    /\ current_context[Last].check_out = <<"2026-01-13">>
    /\ current_context[Last].nights = 3

\* the last turn is a book turn with recommendations to choose from
BookTurn ==
    turns > 0 /\ Extracted[turn.message].intent = "book" /\ turn.recs # <<>>

\* the rows a booking of the item may write
RowsOf(item) ==
    IF IsBundle(item)
    THEN {[item_type |-> "FLIGHT", item_id |-> item.flight.id],
          [item_type |-> "HOTEL", item_id |-> item.hotel.id]}
    ELSE {[item_type |-> "FLIGHT", item_id |-> item.id],
          [item_type |-> "HOTEL", item_id |-> item.id]}

C7_BookingFailure ==
    turns > 0 /\ turn.failed =>
        /\ BookTurn
        /\ turn.reply \in {Reply(k, FALSE, FALSE) :
                             k \in {"bundle_booking_failed", "flight_booking_failed",
                                    "hotel_booking_failed"}}
        /\ phase[Last] \in {"open", "closed"}
        /\ current_context[Last] = turn.merged
        /\ awaiting_slot[Last] = turn.filled.awaiting
        /\ sent.src = "turn" => sent.reply = turn.reply /\ last_recommendations[Last] = turn.recs

\* a flight booking failed, the failure text was sent and the session is open
C7_Witness ==
    /\ turns > 0 /\ turns < MaxTurns /\ turn.failed /\ phase[Last] = "open"
    /\ sent.src = "turn" /\ sent.reply.kind = "flight_booking_failed"
    /\ turn.rows = <<>> /\ last_recommendations[Last] = turn.recs

\* the last turn has the watch intent
WatchTurn == turns > 0 /\ Extracted[turn.message].intent = "watch"

\* C8: a watch turn with a destination adds one active Watch for it, with the
\* budget of the context as target price or 2000 without one, and replies at
\* once, whatever slots are unset; without a destination it adds none
C8_Watch ==
    WatchTurn =>
        IF turn.merged.destination # <<>>
        THEN /\ Len(turn.watch) = 1
             /\ turn.watch[1].destination = turn.merged.destination
             /\ turn.watch[1].is_active
             /\ turn.watch[1].target_price =
                   IF turn.merged.budget # 0 THEN turn.merged.budget ELSE 2000
             /\ Len(watches) >= 1 /\ watches[Len(watches)] = turn.watch[1]
             /\ turn.reply = Reply("watch_set", FALSE, FALSE)
             /\ turn.dispatched /\ awaiting_slot[Last] = turn.filled.awaiting
        ELSE turn.watch = <<>> /\ turn.reply = Reply("watch_which", FALSE, FALSE)

\* two watches, the first with the default target and the second with a budget
C8_Witness ==
    /\ WatchTurn /\ Len(watches) = 2
    /\ watches[1].target_price = 2000 /\ watches[2].target_price = 1500
    /\ watches[2] = turn.watch[1]

\* the ids of the sleeping tasks of a kind
Sleeping(ts, kind) == {ts[i].id : i \in {j \in 1..Len(ts) : ts[j].kind = kind}}

\* C9: a turn whose response has the [WAIT] marker broadcasts it without the
\* marker and adds one follow-up task, a turn without it adds none; no
\* utterance removes a follow-up task; a follow-up task ends only by
\* broadcasting what generate_followup returns and storing its recommendations
C9_FollowUp ==
    [][\A s \in Sessions :
          LET old == Sleeping(tasks[s], "followup")
              new == Sleeping(tasks'[s], "followup")
          IN  /\ turns' = turns + 1 /\ turn'.session = s =>
                    /\ old \subseteq new
                    /\ IF turn'.reply.wait
                       THEN /\ new = old \cup {turns'} /\ turns' \notin old
                            /\ sent'.src = "turn" /\ sent'.to = active_connections
                            /\ sent'.reply = Reply(turn'.reply.kind, FALSE, FALSE)
                       ELSE new = old
              /\ turns' = turns => new \subseteq old
              /\ new # old /\ turns' = turns =>
                    /\ Cardinality(old \ new) = 1
                    /\ sent' = [src |-> "followup", from |-> s, to |-> active_connections,
                                reply |-> generate_followup(current_context[s]).reply]
                    /\ ~generate_followup(current_context[s]).keep =>
                          last_recommendations'[s] = generate_followup(current_context[s]).recs
      ]_vars

\* a follow-up was broadcast after an utterance that came after its [WAIT] turn
C9_Witness ==
    /\ turns > 0 /\ ~turn.reply.wait
    /\ sent.src = "followup" /\ sent.reply.kind = "top_deals"
    /\ last_recommendations[Last] # <<>>

\* C10: a session has at most one sleeping nudge task, it is the one
\* idle_task refers to, and in the session of the last utterance it is the
\* one that utterance made: the one pending before is cancelled
C10_OneNudge ==
    /\ \A s \in Sessions :
          /\ Cardinality(Sleeping(tasks[s], "nudge")) <= 1
          /\ Cardinality(Sleeping(tasks[s], "nudge")) =
                Cardinality({i \in 1..Len(tasks[s]) : tasks[s][i].kind = "nudge"})
          /\ Sleeping(tasks[s], "nudge") \subseteq {idle_task[s]}
    /\ turns > 0 => Sleeping(tasks[Last], "nudge") \subseteq {turns}

\* an utterance cancelled a pending nudge and left its own
C10_Witness ==
    turns > 0 /\ turn.cancelled /\ Sleeping(tasks[Last], "nudge") = {turns}

\* a step in which a sleeping nudge task of session s leaves its sleep and
\* runs: the step is no utterance and the task is no longer among the sleeping
NudgeWakes(s) ==
    /\ turns' = turns
    /\ Sleeping(tasks'[s], "nudge") # Sleeping(tasks[s], "nudge")

\* C11: a cancelled idle-nudge task never broadcasts: the utterance that
\* cancels it removes it from the sleeping tasks in the same step, whose only
\* broadcast is the reply of the turn; the only nudge task that ever leaves
\* its sleep is the one of the last utterance, which no utterance has
\* cancelled; and no broadcast at all comes from a nudge task
C11_CancelledNudgeSilent ==
    [][\A s \in Sessions :
          LET old == Sleeping(tasks[s], "nudge")
              new == Sleeping(tasks'[s], "nudge")
          IN  /\ turns' = turns + 1 /\ turn'.session = s =>
                    /\ old \cap new = {}
                    /\ sent' # sent => sent'.src = "turn"
              /\ NudgeWakes(s) =>
                    /\ turn.session = s /\ old \ new = {turns} /\ new = {}
                    /\ idle_task[s] = turns
              /\ sent' # sent => sent'.src \in {"turn", "followup"}
      ]_vars

\* an utterance cancelled the nudge task of the one before; its own nudge
\* task has left its sleep since, the cancelled one never did, and the last
\* broadcast is still the reply of the turn
C11_Witness ==
    /\ turns > 1 /\ turn.cancelled
    /\ tasks[Last] = <<>> /\ idle_task[Last] = turns
    /\ sent.src = "turn" /\ sent.reply = turn.reply

\* C12: an idle-nudge task that leaves its sleep uncancelled broadcasts a
\* nudge message to the connections
C12_NudgeFires ==
    [][\A s \in Sessions :
          NudgeWakes(s) =>
              /\ sent' # sent
              /\ sent'.src = "nudge" /\ sent'.from = s /\ sent'.to = active_connections
      ]_vars

\* the turns and the follow-ups of a session number their messages as they
\* generate them; a sequence of such numbers is in the order of generation
InOrder(box) == \A i, j \in 1..Len(box) : i < j => box[i] < box[j]

Agent(s) == <<current_context[s], awaiting_slot[s], last_recommendations[s]>>

\* the step is a turn of session s
TurnOf(s) == turns' = turns + 1 /\ turn'.session = s

\* the step is a follow-up of session s leaving its sleep
FollowupOf(s) ==
    /\ turns' = turns
    /\ Sleeping(tasks'[s], "followup") # Sleeping(tasks[s], "followup")

\* C13: in every step of every interleaving of two connected sessions, their
\* follow-ups, nudges and the alerts, what the agent of a session holds changes
\* only in a turn or a follow-up of that session; the turn works on the
\* context, awaiting_slot and last_recommendations of its own session alone
\* and the follow-up on the context of its own session alone
C13_SessionIsolation ==
    [][\A s \in Peers :
          /\ Agent(s)' # Agent(s) => TurnOf(s) \/ FollowupOf(s)
          /\ TurnOf(s) =>
                LET r == process_message(current_context[s], awaiting_slot[s],
                                         last_recommendations[s], turn'.message,
                                         <<"ok", "ok">>)
                IN  /\ Agent(s)' = <<r.ctx, r.awaiting, r.recs>>
                    /\ turn'.reply = r.reply
          /\ FollowupOf(s) =>
                LET r == generate_followup(current_context[s])
                IN  /\ current_context'[s] = current_context[s]
                    /\ awaiting_slot'[s] = awaiting_slot[s]
                    /\ last_recommendations'[s] =
                          IF r.keep THEN last_recommendations[s] ELSE r.recs
                    /\ sent'.src = "followup" /\ sent'.from = s /\ sent'.reply = r.reply
      ]_vars

\* a follow-up of session 2 stored its deals after a turn of session 1, whose
\* agent holds another context and no deals
C13_Witness ==
    /\ turns > 1 /\ turn.session = 1 /\ current_context[1].destination # <<>>
    /\ sent.src = "followup" /\ sent.from = 2
    /\ last_recommendations[2] # <<>> /\ last_recommendations[1] = <<>>
    /\ current_context[2] # current_context[1]

\* the words of a text, and the keywords they hold inside
Words(text) == UNION {{text[i]} \cup Parts(text[i]) : i \in 1..Len(text)}

\* the intents in their priority, each with the condition that triggers it
Triggers(text) ==
    LET w == Words(text)
    IN  << <<"watch", w \cap {"watch", "track", "alert"} # {}>>,
           <<"book", w \cap {"book", "select", "choose", "chose", "pick"} # {}
                     \/ Contains(text, <<"go", "with">>)>>,
           <<"bundle", w \cap {"bundle", "package"} # {}>>,
           <<"show_flights", "flight" \in w /\ w \cap {"show", "again", "list"} # {}>>,
           <<"refine", w \cap ({"hotel"} \cup {amenity_keywords[k] : k \in 1..Len(amenity_keywords)}) # {}>>,
           <<"search", TRUE>> >>

CitiesIn(text) == {k \in 1..Len(known_cities) : CityIn(known_cities[k], text)}

\* the cities that follow the word from
AfterFrom(text) ==
    {k \in 1..Len(known_cities) :
        \E i \in 1..Len(text) :
            /\ text[i] = "from"
            /\ SubSeq(text, i + 1, Min(Len(text), i + Len(known_cities[k]))) = known_cities[k]}

\* C16: of an utterance that names two or more cities of the vocabulary, one
\* of them after the word from, extract does not return a city that follows
\* from as the destination
C16_FromCityNotDestination ==
    val.done /\ Cardinality(CitiesIn(arg)) >= 2 =>
        \A k \in AfterFrom(arg) : val.out.destination # known_cities[k]

\* a string of the form YYYY-MM-DD or YYYY-MM
Canonical(text) == Len(text) = 1 /\ (text[1] \in CanonToks \/ text[1] \in YMToks)

\* C17: normalize_date applied to an output of its own that is a canonical
\* YYYY-MM-DD or YYYY-MM string returns that string
C17_NormalizeIdempotent ==
    "again" \in DOMAIN val /\ Canonical(val.out) => val.again = val.out

\* a month name alone gave a YYYY-MM string, and the second call gave it again
C17_Witness ==
    /\ "again" \in DOMAIN val /\ ~Canonical(arg)
    /\ val.out[1] \in YMToks /\ val.again = val.out

\* the text has a month name, a relative-date word or the pattern of digits
\* around a dash
Datelike(text) ==
    \E i \in 1..Len(text) :
        \/ \E k \in 1..12 : text[i] = MonthKeys[k] \/ MonthKeys[k] \in Parts(text[i])
        \/ text[i] \in {"week", "weeks", "day", "days", "tomorrow"}
        \/ text[i] \in CanonToks \cup YMToks

UnsetOrCanonical(d) == d = None \/ Canonical(d)

\* C19: every date that a turn or a follow-up hands to create_bundles or
\* get_recommendations is unset or a canonical date; an answer to the dates
\* prompt that is no date is not handed on
C19_CatalogDatesCanonical ==
    [][\A s \in Sessions :
          /\ TurnOf(s) /\ turn'.dispatched =>
                LET q == QueryDates(turn'.merged, Extracted[turn'.message], turn'.message)
                IN  \A i \in 1..Len(q) : UnsetOrCanonical(q[i])
          /\ FollowupOf(s) =>
                LET q == FollowupDates(current_context[s])
                IN  \A i \in 1..Len(q) : UnsetOrCanonical(q[i])
      ]_vars

C21_BundleHasAmenities ==
    val.done =>
        \A i \in 1..Len(val.out), k \in 1..Len(arg.amenities) :
            \E j \in 1..Len(val.out[i].hotel.amenities) :
                val.out[i].hotel.amenities[j] = arg.amenities[k]

\* the elements of a list
Elems(l) == {l[i] : i \in 1..Len(l)}

\* the pairs of the five cheapest flights and the five cheapest lodgings that
\* the budget and the amenity filter of the call let through, each with its id
\* and its fit score
Surviving ==
    LET fs == Elems(Take(SortByPrice(arg.flights), 5))
        hs == Elems(Take(SortByPrice(arg.hotels), 5))
        ok(f, h) ==
            /\ arg.budget = 0 \/ f.price + h.price <= arg.budget
            /\ \A k \in 1..Len(arg.amenities) : HasTag(h.amenities, arg.amenities[k])
    IN  {[id |-> <<f.id, h.id>>,
          fit_score |-> calculate_fit_score(f, h, Median2(arg.flights), Median2(arg.hotels),
                                            arg.budget, arg.amenities)] :
            <<f, h>> \in {p \in fs \X hs : ok(p[1], p[2])}}

\* the bundles returned, each as its id and its fit score
Returns == {[id |-> val.out[i].id, fit_score |-> val.out[i].fit_score] : i \in 1..Len(val.out)}

\* C22: create_bundles returns at most 3 bundles in the order of their fit
\* scores, the highest first; they are surviving pairs, all of them when
\* there are 3 or fewer, and no surviving pair left out has a higher fit
\* score than one returned
C22_TopThreeByScore ==
    val.done /\ arg.flights # <<>> /\ arg.hotels # <<>> =>
        /\ Len(val.out) <= 3
        /\ \A i \in 1..(Len(val.out) - 1) : val.out[i].fit_score >= val.out[i + 1].fit_score
        /\ \A i, j \in 1..Len(val.out) : i # j => val.out[i].id # val.out[j].id
        /\ Returns \subseteq Surviving
        /\ Cardinality(Surviving) <= 3 => Returns = Surviving
        /\ \A p \in Surviving \ Returns, b \in Returns : p.fit_score <= b.fit_score

\* four pairs survive and three bundles of different scores are returned
C22_Witness ==
    /\ val.done /\ arg.flights # <<>> /\ arg.hotels # <<>>
    /\ Cardinality(Surviving) = 4 /\ Len(val.out) = 3
    /\ val.out[1].fit_score > val.out[2].fit_score
    /\ val.out[2].fit_score > val.out[3].fit_score

\* C23: with a budget, the total price of every bundle that create_bundles
\* returns, the price of its flight plus the price of its lodging, is at most
\* the budget
C23_BundleWithinBudget ==
    val.done /\ arg.budget # 0 =>
        \A i \in 1..Len(val.out) :
            /\ val.out[i].total_price = val.out[i].flight.price + val.out[i].hotel.price
            /\ val.out[i].total_price <= arg.budget

\* bundles are returned although a pair of the catalog is above the budget
C23_Witness ==
    /\ val.done /\ arg.budget # 0 /\ val.out # <<>>
    /\ \E f \in Elems(arg.flights), h \in Elems(arg.hotels) :
          /\ f.price + h.price > arg.budget
          /\ \A k \in 1..Len(arg.amenities) : HasTag(h.amenities, arg.amenities[k])

\* the ids of the flights of the catalog to the destination within the budget
\* whose departure date contains the date
FlightsOn(date) ==
    {Flights[i].id : i \in {j \in 1..Len(Flights) :
        /\ arg.destination = <<>> \/ Contains(Flights[j].destination, arg.destination)
        /\ arg.budget = 0 \/ Flights[j].price <= arg.budget
        /\ date = <<>> \/ DateContains(Flights[j].departure_date, date)}}

\* C24: a flight query with a date returns the flights of the exact date if
\* there are any, else those of the month of the date if there are any, else
\* the flights of any date; the flights of each tier are flights to the
\* destination at a price within the budget
C24_DateFallback ==
    val.done /\ arg.category = "Flight" /\ arg.date # <<>> =>
        LET got == {val.out[i].id : i \in 1..Len(val.out)}
        IN  /\ got \subseteq FlightsOn(<<>>)
            /\ got = IF FlightsOn(arg.date) # {} THEN FlightsOn(arg.date)
                     ELSE IF FlightsOn(Prefix7(arg.date)) # {}
                     THEN FlightsOn(Prefix7(arg.date))
                     ELSE FlightsOn(<<>>)

\* the event that consume_raw_feeds is done with, when the producer took
\* what was sent to it
Fed == handled # <<>> /\ handled.stage = "detector" /\ handled.out = "ok"

\* the tags "n% OFF"
OffTags == {ToString(n) \o "% OFF" : n \in 0..100}

\* C25: the detection stage publishes a deal event for a raw event if and
\* only if its price is at most 0.85 of its 30-day average; the event
\* published carries a percentage-off tag, and the tag Selling Fast exactly
\* when seats_left < 5 or availability < 3
C25_DealDetection ==
    Fed =>
        LET data == handled.data
            tags == handled.published[1].tags
        IN  /\ handled.published # <<>> <=> 100 * data.price <= 85 * data.avg_30d_price
            /\ handled.published # <<>> =>
                  /\ \E i \in 1..Len(tags) : tags[i] \in OffTags
                  /\ (\E i \in 1..Len(tags) : tags[i] = "Selling Fast")
                       <=> (\/ "seats_left" \in DOMAIN data /\ data.seats_left < 5
                            \/ "availability" \in DOMAIN data /\ data.availability < 3)

\* consume_and_notify is done with an event and has not failed on it
Notified == handled # <<>> /\ handled.stage = "alerts" /\ ~handled.raised

\* the connections that were live from the moment the event was consumed
LiveThroughout ==
    handled.live \cap {active_connections[i] : i \in 1..Len(active_connections)}

\* C26: for a deal event the alert service consumed, every session that is
\* live gets one alert for every active Watch whose destination is that of
\* the event and whose target_price is at least its price, whoever owns the
\* Watch, and no alert for any other Watch
C26_AlertPerWatch ==
    Notified =>
        LET event == handled.event
            matching == {i \in 1..Len(watches) :
                            /\ watches[i].destination = event.destination
                            /\ watches[i].is_active
                            /\ watches[i].target_price >= event.price}
        IN  /\ \A c \in LiveThroughout, i \in matching : <<c, i>> \in handled.got
            /\ \A a \in handled.got : a[2] \in matching

\* the step is the one where the consumer g raises on an event
Raises(g) == handled' # handled /\ handled'.stage = g /\ handled'.raised

\* what the except clause of the consumer g prints
LineOf(g) == IF g = "detector" THEN "Consumer failed" ELSE "Alert Listener Failed"

\* C27: when the detection consumer or the alert consumer raises on an
\* event, the failure is logged and the loop of that consumer is left for
\* good: it is done with no further event; the sessions and the other
\* consumer are as they were and go on
C27_FailedStageStops ==
    [][\A g \in {"detector", "alerts"} :
          /\ Raises(g) =>
                /\ stages[g] = "running"
                /\ stages' = [stages EXCEPT ![g] = "failed"]
                /\ log' = Append(log, LineOf(g))
                /\ active_connections' = active_connections
                /\ phase' = phase
          /\ stages[g] = "failed" =>
                /\ stages'[g] = "failed"
                /\ handled' # handled => handled'.stage # g
                /\ g = "detector" => Len(deal_events') <= Len(deal_events)
                /\ g = "alerts" => inbox' = inbox /\ Len(deal_events') >= Len(deal_events)]_vars

\* the alert consumer has failed, the detection consumer has handled an
\* event since, and a session is open
C27_Witness ==
    /\ stages = [detector |-> "running", alerts |-> "failed"]
    /\ handled # <<>>
    /\ handled.stage = "detector"
    /\ deal_events # <<>>
    /\ \E s \in Peers : phase[s] = "open"

\* C28: a frame that begins with AUTH_TOKEN: is taken as the credential of
\* its session: nothing is broadcast, process_message is not called, the
\* context, the awaited slot, the recommendations and the tasks of the
\* session stay as they are; every other frame is an utterance, and the
\* credential stored is passed to each process_message call after it
C28_AuthFrame ==
    [][\A s \in Sessions :
          /\ user_token'[s] # user_token[s] =>
                /\ sent' = sent
                /\ turn' = turn /\ turns' = turns
                /\ Agent(s)' = Agent(s)
                /\ tasks' = tasks /\ idle_task' = idle_task
          /\ TurnOf(s) => turn'.user_token = user_token[s] /\ user_token' = user_token]_vars

\* an utterance after the AUTH_TOKEN frame of its session
C28_Witness == turn # <<>> /\ turn.user_token = "jwt" /\ sent # <<>>

\* the flight and the lodging cost at least the medians
AtOrAboveMedians == 2 * arg.flight.price >= arg.f_med2 /\ 2 * arg.hotel.price >= arg.h_med2

\* neither the tags of the lodging, nor amenities asked for, nor a budget add
\* to the score
PriceOnly == arg.hotel.amenities = <<>> /\ arg.amenities = <<>> /\ arg.budget = 0

\* C29: the price savings add between 0 and 30 points to the base of 50: a
\* pair at or above the medians has nothing taken off the base for its
\* price, and a pair scored on its price alone gets between 50 and 80
C29_PriceComponent ==
    val.done =>
        /\ AtOrAboveMedians => val.out >= 50
        /\ PriceOnly => val.out \in 50..80

\* the number after option or bundle in the utterance, -1 when there is none
IndexAsked == IF Len(arg.message) = 3 THEN IntOf(arg.message[3]) ELSE -1

\* the same call on the utterance without an index
NoIndex ==
    SlotFilling(EmptyContext, NoSlot, arg.recs, <<"book", "it">>, arg.out,
                extract(<<"book", "it">>))

\* C30: a book turn whose index is outside 1..len(last_recommendations), 0
\* included, goes as the turn without an index does: the first
\* recommendation is quoted and persisted, the reply is the same and
\* reports no error of the index
C30_IndexOutOfRange ==
    val.done /\ IndexAsked >= 0 /\ IndexAsked \notin 1..Len(arg.recs) =>
        /\ val.out.selected = <<arg.recs[1]>>
        /\ \A i \in 1..Len(val.out.rows) : val.out.rows[i] \in RowsOf(arg.recs[1])
        /\ \A f \in {"selected", "rows", "reply", "failed", "raised", "recs"} :
               val.out[f] = NoIndex[f]
        /\ arg.out = <<"ok", "ok">> => ~val.out.failed /\ val.out.rows # <<>>

\* option 9 on a list of two or three different recommendations booked the first
C30_Witness ==
    /\ val.done /\ IndexAsked = 9 /\ Len(arg.recs) >= 2
    /\ arg.recs[Len(arg.recs)] # arg.recs[1]
    /\ val.out.selected = <<arg.recs[1]>>
    /\ val.out.rows # <<>>

\* C31: a destination that the context of a session holds is never changed,
\* by no turn and no follow-up, whatever city a later utterance names
C31_DestinationKept ==
    [][\A s \in Sessions :
          current_context[s].destination # <<>> =>
              current_context'[s].destination = current_context[s].destination]_vars

\* a turn on an utterance that names another city than the destination of
\* the session, which is still the destination after the turn
C31_Witness ==
    /\ turns > 0
    /\ turn.ctx.destination # <<>>
    /\ Extracted[turn.message].destination # <<>>
    /\ Extracted[turn.message].destination # turn.ctx.destination
    /\ current_context[Last].destination = turn.ctx.destination
    /\ turn.dispatched

\* the booking paths that wrote a record in the call, in their order
PathsTaken == [i \in 1..Len(val.out.rows) |-> val.out.rows[i].item_type]

\* the booking paths of the type of an item
PathsOf(item) ==
    IF IsBundle(item) THEN <<"FLIGHT", "HOTEL">>
    ELSE IF item.type = "Flight" THEN <<"FLIGHT">>
    ELSE <<"HOTEL">>

\* C32: a book turn persists by the type of the selected recommendation: a
\* bundle through the flight and the hotel booking path, a flight through the
\* flight path only, a lodging of get_recommendations through the hotel path
\* only
C32_DispatchByType ==
    val.done /\ val.out.selected # <<>> =>
        LET paths == PathsOf(val.out.selected[1])
        IN  /\ \A i \in 1..Len(PathsTaken) : \E j \in 1..Len(paths) : PathsTaken[i] = paths[j]
            /\ arg.out = <<"ok", "ok">> => PathsTaken = paths

\* the replies that confirm a booking
Confirmations == {Reply(k, FALSE, FALSE) :
                     k \in {"booking_confirmed", "flight_confirmed", "hotel_confirmed"}}

\* C33: a book turn replies with a confirmation only if the turn persisted a
\* booking record for every component of the selected item; a booking path
\* that creates no record, as when no user id is resolved, gives no
\* confirmation
C33_ConfirmedMeansPersisted ==
    val.done /\ val.out.selected # <<>> /\ val.out.reply \in Confirmations =>
        Len(val.out.rows) = IF IsBundle(val.out.selected[1]) THEN 2 ELSE 1

\* C34: a book turn on a bundle that replies with the failure message leaves
\* neither the flight record nor the hotel record of the turn persisted
C34_BundleAllOrNothing ==
    /\ val.done /\ val.out.selected # <<>> /\ IsBundle(val.out.selected[1])
    /\ val.out.reply = Reply("bundle_booking_failed", FALSE, FALSE)
    => val.out.rows = <<>>

\* the step is a send of the broadcast cast to the connection at its place
\* in active_connections
SendsTo(cast, c) ==
    /\ cast.next <= Len(active_connections)
    /\ active_connections[cast.next] = c
    /\ casts' = (casts \ {cast}) \cup {[cast EXCEPT !.next = @ + 1]}

\* C35: the reply to an utterance of a session and the follow-up of that
\* session are sent on the connection of that session only, so that what a
\* session receives does not depend on what another session says
C35_OwnConnectionOnly ==
    [][\A cast \in casts, c \in Peers :
          cast.src \in {"turn", "followup"} /\ SendsTo(cast, c) => c = cast.from]_vars

\* C36: a session that disconnected is not in the live set, and no message
\* made for it afterwards, by a follow-up or a nudge that was pending when it
\* left, is broadcast to the sessions that remain
C36_NoBroadcastAfterDisconnect ==
    [][/\ \A s \in Peers :
             phase'[s] = "closed" =>
                 \A i \in 1..Len(active_connections') : active_connections'[i] # s
       /\ \A cast \in casts' \ casts :
             cast.src \in {"followup", "nudge"} /\ phase[cast.from] = "closed" =>
                 active_connections = <<>>]_vars

\* C37: a reply of process_message that carries the [WAIT] marker comes with
\* a context in which the destination and the dates are set, so that the
\* follow-up does not answer that the details were lost, whatever the intent
\* of the utterance, a book turn without recommendations included
C37_WaitHasDetails ==
    val.done /\ val.out.reply.wait =>
        /\ val.out.ctx.destination # <<>> /\ val.out.ctx.dates # <<>>
        /\ generate_followup(val.out.ctx).reply # Reply("lost_details", FALSE, FALSE)

\* C38: the detection consumer goes on after every raw event that the
\* ingestion can publish: when it is done with an event, one of price 0 and
\* average 0 included, its loop is running and takes the events after it
C38_DetectorKeepsRunning ==
    Fed => ~handled.raised /\ stages.detector = "running"

\* C39: in a new session whose user answers each prompt with a well-formed
\* value, a canonical date for a date prompt, no prompt is given twice: each
\* slot is asked at most once and no date prompt comes again after its
\* answer, so the dialogue goes on to the acknowledgement of the search
C39_EachPromptOnce ==
    \A i, j \in 1..Len(turn.prompts) : turn.prompts[i] = turn.prompts[j] => i = j

====
